---- MODULE Spec2Model ----
(***************************************************************************)
(* A model of the Meta Ads reporting pipeline:                             *)
(*   - MetaApiClient.find_eligible_ads (the two-stage eligibility filter), *)
(*   - the metric extractors of MetaApiClient,                             *)
(*   - PerformanceAnalyzer.compare_to_benchmarks.                          *)
(* Python floats are modelled by exact integers and exact rationals.       *)
(***************************************************************************)
EXTENDS Integers, Sequences, FiniteSets, TLC

(***************************************************************************)
(* Bounds of the model and program constants.                              *)
(***************************************************************************)
\* longest ad inventory the account returns in SpecElig
MaxAds == 2
\* most rows one insights query returns
MaxRows == 2
\* ads per spend query (the code batches by 50; the model scales it down)
BatchSize == 2
\* time-of-day slots of a day: 0 is midnight, NumTod - 1 the last one
NumTod == 2
\* age_gender rows of one ad
MaxSegments == 4
\* rate-limit responses one client receives
MaxRateLimited == 6
\* pages one paginated request is served in
MaxPages == 2
\* config/settings.py
DAYS_THRESHOLD == 7
SPEND_THRESHOLD == 250

VARIABLES
    \* ---- find_eligible_ads: arguments and environment
    now_tod,                \* time of day of datetime.now(); today is day 0
    days,                   \* argument days
    min_spend,              \* argument min_spend
    specific_adset_ids,     \* argument: [given, ids]
    specific_campaign_ids,  \* argument: [given, ids]
    account_ads,            \* what the account's /ads edge holds
    account_spend,          \* ad id -> spend of the ad over the queried window
    honours,                \* whether the insights source applies the filter it is sent
    \* ---- find_eligible_ads: locals and results
    pc,                     \* "start" | "stage2" | "done"
    all_ads,
    eligible_by_date,
    batch_no,               \* index of the next batch of ad_batches
    eligible_ads,           \* ads accepted so far, in acceptance order
    result,                 \* the returned list
    raised,                 \* an exception reached the except clause
    insights_calls,         \* spend queries issued in this call
    ads_within_threshold,   \* self.ads_within_threshold
    \* ---- metric extractors
    insight_item,           \* the raw insight record
    extractor,              \* which extraction path ran ("none" before)
    outcome,                \* "idle" | "ok" | "raised"
    metrics,                \* the metrics map produced
    \* ---- PerformanceAnalyzer
    meta_client,            \* analyzer has a client
    benchmarks,             \* self.benchmarks: [set, market, benchmarks]
    aggregate_calls,        \* get_account_insights calls
    ad_metrics,             \* ad_data['metrics'] of the last call that compared
    comparison,             \* what the last call returned as benchmark comparison
    age_gender,             \* ad_data['breakdowns']['age_gender'] of the last call
    segment_analysis,       \* what the last call returned as segment analysis
    \* ---- run_pipeline, step 5, and the output field sanitizer
    saving,                 \* "idle" | "analysed" | "filtered" | "dumped" | "updated"
    analyzed_ads,           \* the list the analysis loop has built
    filtered_analyzed_ads,  \* what _filter_fields_for_json returned: [returned, ads]
    filtered_again,         \* what a second pass over that result returned
    json_file,              \* the JSON sink: [written, text]
    ad_details_batch,       \* the spreadsheet sink: [updated, ads]
    \* ---- MetaApiClient._make_api_request
    rate_limit_wait,        \* self.rate_limit_wait, seconds
    retries,                \* nested retries of the request in flight; -1 when none is
    rate_limited,           \* rate-limit responses received so far
    last_status,            \* "none" | "limited" | "ok" | "failed"
    \* ---- DataValidator
    candidate,              \* the ad_data handed to validate_ad_data
    validation,             \* what it returned: [returned, is_valid, issues]
    \* ---- MetaApiClient: the external calls and the time between them
    in_call,                \* "none" | "single" | "first page" | "next page"
    url_kind,               \* "plain" | "video or creative": the url of the request
    elapsed,                \* time.time() - self.last_request_time, seconds
    since_call,             \* seconds since the client's previous external call
    call_log,               \* the latest external call: [made, by, first, gap, wait]
    call_outcome,           \* "none" | "returned" | "stub" | "raised"
    served,                 \* the pages the API holds for the paginated request
    page_count,             \* page_count of _handle_pagination
    all_data,               \* all_data of _handle_pagination
    paged,                  \* what _handle_pagination returned: [returned, data]
    \* ---- PipelineManager.run_pipeline
    run_at,                 \* the step the run is at; "returned" and "aborted" end it
    config,                 \* [region, configured, token]: argument and settings
    run_stats,              \* run_stats
    processed_count,        \* processed_count: ads of eligible_ads taken so far
    valid_ads,              \* valid_ads
    analysis_no,            \* ads of valid_ads the analysis loop has taken
    failures,               \* per-ad failures that have occurred in the run
    counted,                \* the ads counted as [success, error]
    sinks_failed,           \* the sinks that failed in step 5
    stats_before_saving,    \* run_stats when step 5 began
    fatal                   \* "none", or what made the run end as failed

eligVars == <<now_tod, days, min_spend, specific_adset_ids, specific_campaign_ids,
              account_ads, account_spend, honours, pc, all_ads, eligible_by_date, batch_no,
              eligible_ads, result, raised, insights_calls, ads_within_threshold>>
extVars == <<insight_item, extractor, outcome, metrics>>
benchVars == <<meta_client, benchmarks, aggregate_calls, ad_metrics, comparison,
               age_gender, segment_analysis>>
sinkVars == <<saving, analyzed_ads, filtered_analyzed_ads, filtered_again, json_file,
              ad_details_batch>>
rateVars == <<rate_limit_wait, retries, rate_limited, last_status>>
validVars == <<candidate, validation>>
clientVars == <<in_call, url_kind, elapsed, since_call, call_log, call_outcome, served,
                page_count, all_data, paged>>
runVars == <<run_at, config, run_stats, processed_count, valid_ads, analysis_no, failures,
             counted, sinks_failed, stats_before_saving, fatal>>
laterVars == <<validVars, clientVars, runVars>>
vars == <<eligVars, extVars, benchVars, sinkVars, rateVars, laterVars>>

(***************************************************************************)
(* Generic helpers.                                                        *)
(***************************************************************************)
Range(s) == {s[i] : i \in 1..Len(s)}

SeqsUpTo(S, n) == UNION {[1..k -> S] : k \in 0..n}

Min(a, b) == IF a <= b THEN a ELSE b

\* x in list
InList(x, list) == \E i \in 1..Len(list) : list[i] = x

\* truthiness of an optional list argument: None and [] are both false
Truthy(arg) == arg.given /\ Len(arg.ids) > 0

(***************************************************************************)
(* Dates.  A datetime is [day, tod]; today is day 0, earlier days are      *)
(* negative.  created_time is "" or an ISO string "<date>T<time>".         *)
(***************************************************************************)
NoCreated == [kind |-> "none", day |-> 0, tod |-> 0]

IsoTime(d, t) == [kind |-> "iso", day |-> d, tod |-> t]

\* datetime <= datetime
DateTimeLE(a, b) == a.day < b.day \/ (a.day = b.day /\ a.tod <= b.tod)

\* days_ago = today - timedelta(days=days): keeps the time of day of now
DaysAgo(tod, n) == [day |-> 0 - n, tod |-> tod]

\* a parse that keeps the time of day of created_time
ParseCreatedKeepTime(created) == [day |-> created.day, tod |-> created.tod]

\* datetime.strptime(created_time_str.split('T')[0], '%Y-%m-%d'): midnight
ParseCreated(created) == [day |-> created.day, tod |-> 0]

(***************************************************************************)
(* Stage 1 of find_eligible_ads.                                           *)
(***************************************************************************)
\* both filters active, combined by AND
IncludeAdAnd(ad, adsets, campaigns) ==
    /\ Truthy(adsets) => InList(ad.adset, adsets.ids)
    /\ Truthy(campaigns) => InList(ad.campaign, campaigns.ids)

\* include_ad as the code computes it, assignment by assignment
IncludeAd(ad, adsets, campaigns) ==
    LET inc0 == TRUE
        inc1 == IF Truthy(adsets)
                THEN inc0 /\ (InList(ad.adset, adsets.ids) \/ FALSE)
                ELSE inc0
        inc2 == IF Truthy(campaigns)
                THEN IF Truthy(adsets)
                     THEN inc1 \/ InList(ad.campaign, campaigns.ids)
                     ELSE inc1 /\ InList(ad.campaign, campaigns.ids)
                ELSE inc1
    IN inc2

\* a Stage 1 that forgets the age check
PassesStage1AnyAge(ad, tod, n, adsets, campaigns) ==
    /\ ad.created.kind # "none"
    /\ IncludeAd(ad, adsets, campaigns)

\* the loop body's decision for one ad of all_ads
PassesStage1(ad, tod, n, adsets, campaigns) ==
    /\ ad.created.kind # "none"
    /\ DateTimeLE(ParseCreated(ad.created), DaysAgo(tod, n))
    /\ IncludeAd(ad, adsets, campaigns)

Stage1(ads, tod, n, adsets, campaigns) ==
    LET keep(ad) == PassesStage1(ad, tod, n, adsets, campaigns)
    IN SelectSeq(ads, keep)

(***************************************************************************)
(* Stage 2 of find_eligible_ads.                                           *)
(***************************************************************************)
\* ad_batches = [eligible_by_date[i:i+50] for i in range(0, len, 50)]
NumBatches(ads) == (Len(ads) + BatchSize - 1) \div BatchSize

Batch(ads, k) ==
    SubSeq(ads, (k - 1) * BatchSize + 1, Min(k * BatchSize, Len(ads)))

BatchIds(batch) == {batch[i].id : i \in 1..Len(batch)}

\* a filter operator that also lets the threshold itself through
SpendFilterAtLeast(spend, threshold) == spend >= threshold

\* {"field": "spend", "operator": "GREATER_THAN", "value": min_spend}
SpendFilter(spend, threshold) == spend > threshold

\* float(insight.get('spend', 0))
RowSpend(row) == IF row.has_spend THEN row.spend ELSE 0

\* what a source that applies the filtering parameter returns: one row for each
\* ad of batch_ad_ids whose spend passes the spend filter
HonestRows(batch, spendOf, threshold) ==
    LET row(i) == [ad_id |-> batch[i].id, has_spend |-> TRUE,
                   spend |-> spendOf[batch[i].id]]
        all == [i \in 1..Len(batch) |-> row(i)]
        passes(r) == SpendFilter(r.spend, threshold)
    IN SelectSeq(all, passes)

\* next((ad for ad in batch if ad.get('id') == ad_id), None) is not None
HasMatchingAd(batch, ad_id) == \E i \in 1..Len(batch) : batch[i].id = ad_id

MatchingAd(batch, ad_id) ==
    batch[CHOOSE i \in 1..Len(batch) :
            /\ batch[i].id = ad_id
            /\ \A j \in 1..(i - 1) : batch[j].id # ad_id]

AdData(row, ad) ==
    [ad_id |-> row.ad_id, campaign_id |-> ad.campaign, adset_id |-> ad.adset,
     created_time |-> ad.created, spend |-> RowSpend(row)]

\* the inner loop over batch_insights: append ad_data for rows with a matching ad
RECURSIVE Accept(_, _, _)
Accept(acc, rows, batch) ==
    IF rows = <<>> THEN acc
    ELSE LET row == Head(rows)
         IN Accept(IF HasMatchingAd(batch, row.ad_id)
                   THEN Append(acc, AdData(row, MatchingAd(batch, row.ad_id)))
                   ELSE acc,
                   Tail(rows), batch)

\* put x behind every element whose spend is >= x.spend
RECURSIVE InsertDesc(_, _)
InsertDesc(s, x) ==
    IF s = <<>> THEN <<x>>
    ELSE IF Head(s).spend >= x.spend
         THEN <<Head(s)>> \o InsertDesc(Tail(s), x)
         ELSE <<x>> \o s

\* put x behind every element whose spend is <= x.spend
RECURSIVE InsertAsc(_, _)
InsertAsc(s, x) ==
    IF s = <<>> THEN <<x>>
    ELSE IF Head(s).spend <= x.spend
         THEN <<Head(s)>> \o InsertAsc(Tail(s), x)
         ELSE <<x>> \o s

RECURSIVE SortAsc(_)
SortAsc(s) == IF s = <<>> THEN <<>> ELSE InsertAsc(SortAsc(SubSeq(s, 1, Len(s) - 1)), s[Len(s)])

Reverse(s) == [i \in 1..Len(s) |-> s[Len(s) + 1 - i]]

\* an ascending sort that is reversed afterwards: ties come out reversed
SortBySpendReversed(s) == Reverse(SortAsc(s))

\* a stable sort, highest spend first
RECURSIVE StableSortDesc(_)
StableSortDesc(s) ==
    IF s = <<>> THEN <<>>
    ELSE InsertDesc(StableSortDesc(SubSeq(s, 1, Len(s) - 1)), s[Len(s)])

\* sorted(eligible_ads, key=lambda x: x.get('spend', 0), reverse=True)
SortBySpend(s) == StableSortDesc(s)

(***************************************************************************)
(* The values the model draws from.                                        *)
(***************************************************************************)
AdsetIds == {"a1", "a2"}
CampaignIds == {"c1", "c2"}

\* no created_time, or created n or n-1 days ago at midnight or in the last slot
CreatedTimes(n) ==
    {NoCreated} \cup {IsoTime(d, t) : d \in {0 - n, 1 - n}, t \in {0, NumTod - 1}}

AdAttrs(n) == [created : CreatedTimes(n), adset : AdsetIds, campaign : CampaignIds]

\* the account's ads: the API gives each ad its own id
WithIds(f) ==
    [i \in 1..Len(f) |-> [id |-> i, created |-> f[i].created, adset |-> f[i].adset,
                           campaign |-> f[i].campaign]]

Inventories(n, maxLen) == {WithIds(f) : f \in SeqsUpTo(AdAttrs(n), maxLen)}

\* inventories of ads that are all old enough or all but the first
PlainInventories(n, maxLen) ==
    {[i \in 1..k |-> [id |-> i,
                       created |-> IF i = 1 THEN c ELSE IsoTime(0 - n, 0),
                       adset |-> "a1", campaign |-> "c1"]] :
        c \in {IsoTime(0 - n, 0), IsoTime(1 - n, 0)}, k \in 0..maxLen}

NotGiven == [given |-> FALSE, ids |-> <<>>]
Given(ids) == [given |-> TRUE, ids |-> ids]

AdsetArgs == {NotGiven, Given(<<>>), Given(<<"a1">>)}
CampaignArgs == {NotGiven, Given(<<"c1">>)}

SpendVals == {SPEND_THRESHOLD, SPEND_THRESHOLD + 1, SPEND_THRESHOLD + 2}

\* an insights row; its ad id may be one the batch does not hold (id 0)
Rows(batch) ==
    [ad_id : BatchIds(batch) \cup {0}, has_spend : {TRUE}, spend : SpendVals]
        \cup [ad_id : BatchIds(batch) \cup {0}, has_spend : {FALSE}, spend : {0}]

(***************************************************************************)
(* find_eligible_ads                                                       *)
(***************************************************************************)
EligIdle ==
    /\ pc = "start"
    /\ all_ads = <<>>
    /\ eligible_by_date = <<>>
    /\ batch_no = 1
    /\ eligible_ads = <<>>
    /\ result = <<>>
    /\ raised = FALSE
    /\ insights_calls = 0
    /\ ads_within_threshold = 0

\* all_ads = self._handle_pagination(ads_url, ads_params) returns; Stage 1 runs
ListAds ==
    /\ pc = "start"
    /\ all_ads' = account_ads
    /\ IF account_ads = <<>>
       THEN /\ pc' = "done"
            /\ result' = <<>>
            /\ UNCHANGED <<eligible_by_date, ads_within_threshold>>
       ELSE LET kept == Stage1(account_ads, now_tod, days,
                               specific_adset_ids, specific_campaign_ids)
            IN /\ eligible_by_date' = kept
               /\ ads_within_threshold' = Len(kept)
               /\ result' = <<>>
               /\ pc' = IF kept = <<>> THEN "done" ELSE "stage2"
    /\ UNCHANGED <<now_tod, days, min_spend, specific_adset_ids,
                   specific_campaign_ids, account_ads, account_spend, honours, batch_no,
                   eligible_ads, raised, insights_calls>>
    /\ UNCHANGED <<extVars, benchVars, sinkVars, rateVars, laterVars>>

\* the listing raises: except Exception -> return []
ListAdsFails ==
    /\ pc = "start"
    /\ pc' = "done"
    /\ raised' = TRUE
    /\ result' = <<>>
    /\ UNCHANGED <<now_tod, days, min_spend, specific_adset_ids,
                   specific_campaign_ids, account_ads, account_spend, honours, all_ads,
                   eligible_by_date, batch_no, eligible_ads, insights_calls,
                   ads_within_threshold>>
    /\ UNCHANGED <<extVars, benchVars, sinkVars, rateVars, laterVars>>

\* one pass of "for batch in ad_batches"; after the last batch, sort and return
QueryBatch ==
    /\ pc = "stage2"
    /\ batch_no <= NumBatches(eligible_by_date)
    /\ LET batch == Batch(eligible_by_date, batch_no)
       IN \E rows \in (IF honours
                        THEN {HonestRows(batch, account_spend, min_spend)}
                        ELSE SeqsUpTo(Rows(batch), MaxRows)) :
            /\ insights_calls' = insights_calls + 1
            /\ eligible_ads' = Accept(eligible_ads, rows, batch)
            /\ batch_no' = batch_no + 1
            /\ IF batch_no = NumBatches(eligible_by_date)
               THEN /\ result' = SortBySpend(eligible_ads')
                    /\ pc' = "done"
               ELSE UNCHANGED <<result, pc>>
    /\ UNCHANGED <<now_tod, days, min_spend, specific_adset_ids,
                   specific_campaign_ids, account_ads, account_spend, honours, all_ads,
                   eligible_by_date, raised, ads_within_threshold>>
    /\ UNCHANGED <<extVars, benchVars, sinkVars, rateVars, laterVars>>

\* a spend query raises and the ads accepted so far are returned
QueryBatchFailsKeepsAccepted ==
    /\ pc = "stage2"
    /\ batch_no <= NumBatches(eligible_by_date)
    /\ insights_calls' = insights_calls + 1
    /\ raised' = TRUE
    /\ result' = SortBySpend(eligible_ads)
    /\ pc' = "done"
    /\ UNCHANGED <<now_tod, days, min_spend, specific_adset_ids,
                   specific_campaign_ids, account_ads, account_spend, honours, all_ads,
                   eligible_by_date, batch_no, eligible_ads, ads_within_threshold>>
    /\ UNCHANGED <<extVars, benchVars, sinkVars, rateVars, laterVars>>

\* a spend query raises: except Exception -> return []
QueryBatchFails ==
    /\ pc = "stage2"
    /\ batch_no <= NumBatches(eligible_by_date)
    /\ insights_calls' = insights_calls + 1
    /\ raised' = TRUE
    /\ result' = <<>>
    /\ pc' = "done"
    /\ UNCHANGED <<now_tod, days, min_spend, specific_adset_ids,
                   specific_campaign_ids, account_ads, account_spend, honours, all_ads,
                   eligible_by_date, batch_no, eligible_ads, ads_within_threshold>>
    /\ UNCHANGED <<extVars, benchVars, sinkVars, rateVars, laterVars>>

NextElig == ListAds \/ ListAdsFails \/ QueryBatch \/ QueryBatchFails

ExtIdle ==
    /\ insight_item = <<>>
    /\ extractor = "none"
    /\ outcome = "idle"
    /\ metrics = [k \in {} |-> 0]

\* self.benchmarks = None
NoBenchmarks == [isNone |-> TRUE, market |-> "", benchmarks |-> [k \in {} |-> 0]]

\* no comparison has been returned
NoComparison == [returned |-> FALSE]

\* ad_data without 'breakdowns' (or without 'age_gender' in it)
NoBreakdown == [given |-> FALSE, segments |-> <<>>]

\* no segment analysis has been returned
NoSegmentAnalysis == [returned |-> FALSE]

BenchIdle ==
    /\ meta_client = FALSE
    /\ benchmarks = NoBenchmarks
    /\ aggregate_calls = 0
    /\ ad_metrics = [k \in {} |-> 0]
    /\ comparison = NoComparison
    /\ age_gender = NoBreakdown
    /\ segment_analysis = NoSegmentAnalysis

\* _filter_fields_for_json has not returned
NotFiltered == [returned |-> FALSE, ads |-> <<>>]

\* nothing has been written to the JSON file
NotWritten == [written |-> FALSE, text |-> <<>>]

\* update_ad_details_batch has not been called
NotUpdated == [updated |-> FALSE, ads |-> <<>>]

SinkIdle ==
    /\ saving = "idle"
    /\ analyzed_ads = <<>>
    /\ filtered_analyzed_ads = NotFiltered
    /\ filtered_again = NotFiltered
    /\ json_file = NotWritten
    /\ ad_details_batch = NotUpdated

\* validate_ad_data has not returned
NotValidated == [returned |-> FALSE, is_valid |-> FALSE, issues |-> <<>>]

ValidIdle ==
    /\ candidate = [k \in {} |-> 0]
    /\ validation = NotValidated

\* no external call has been made
NoCall == [made |-> FALSE, by |-> "none", first |-> TRUE,
           gap |-> [kind |-> "num", n |-> 0, d |-> 1],
           wait |-> [kind |-> "num", n |-> 0, d |-> 1]]

\* _handle_pagination has not returned
NotPaged == [returned |-> FALSE, data |-> <<>>]

ClientIdle ==
    /\ in_call = "none"
    /\ url_kind = "plain"
    /\ elapsed = [kind |-> "num", n |-> 0, d |-> 1]
    /\ since_call = [kind |-> "num", n |-> 0, d |-> 1]
    /\ call_log = NoCall
    /\ call_outcome = "none"
    /\ served = <<>>
    /\ page_count = 0
    /\ all_data = <<>>
    /\ paged = NotPaged

\* run_stats as lines 325-332 set it
NewRunStats ==
    [ad_count |-> 0, success_count |-> 0, error_count |-> 0,
     run_status |-> "in_progress", warning |-> FALSE]

RunIdle ==
    /\ run_at = "new"
    /\ config = [region |-> "GBR", configured |-> TRUE, token |-> TRUE]
    /\ run_stats = NewRunStats
    /\ processed_count = 0
    /\ valid_ads = <<>>
    /\ analysis_no = 0
    /\ failures = 0
    /\ counted = [success |-> {}, error |-> {}]
    /\ sinks_failed = {}
    /\ stats_before_saving = NewRunStats
    /\ fatal = "none"

LaterIdle == ValidIdle /\ ClientIdle /\ RunIdle

\* no client: no delay, no request
RateIdle ==
    /\ rate_limit_wait = [kind |-> "num", n |-> 0, d |-> 1]
    /\ retries = -1
    /\ rate_limited = 0
    /\ last_status = "none"

\* Stage 1 inputs in full; every ad has spent and the source applies the filter
InitElig ==
    /\ now_tod \in 0..(NumTod - 1)
    /\ days = DAYS_THRESHOLD
    /\ min_spend = SPEND_THRESHOLD
    /\ specific_adset_ids \in AdsetArgs
    /\ specific_campaign_ids \in CampaignArgs
    /\ account_ads \in Inventories(days, MaxAds)
    /\ account_spend = [i \in 1..Len(account_ads) |-> SPEND_THRESHOLD + 1]
    /\ honours = TRUE
    /\ EligIdle
    /\ ExtIdle
    /\ BenchIdle
    /\ SinkIdle
    /\ RateIdle /\ LaterIdle

SpecElig == InitElig /\ [][NextElig]_vars

\* Stage 2 inputs in full: two batches, a source that returns any rows
InitSpend ==
    /\ now_tod = 0
    /\ days = DAYS_THRESHOLD
    /\ min_spend = SPEND_THRESHOLD
    /\ specific_adset_ids = NotGiven
    /\ specific_campaign_ids = NotGiven
    /\ account_ads \in PlainInventories(days, BatchSize + 1)
    /\ honours \in BOOLEAN
    /\ account_spend \in [1..Len(account_ads) ->
                            IF honours THEN SpendVals ELSE {SPEND_THRESHOLD + 1}]
    /\ EligIdle
    /\ ExtIdle
    /\ BenchIdle
    /\ SinkIdle
    /\ RateIdle /\ LaterIdle

SpecSpend == InitSpend /\ [][NextElig]_vars

(***************************************************************************)
(* Raw insight records.  A field is absent, null, a number (or a string    *)
(* that parses as one), a string that does not parse, or a list of         *)
(* {action_type, value} entries.                                           *)
(***************************************************************************)
Absent == [t |-> "absent", v |-> 0, items |-> <<>>]
Null == [t |-> "null", v |-> 0, items |-> <<>>]
Unparsable == [t |-> "str", v |-> 0, items |-> <<>>]
Num(n) == [t |-> "num", v |-> n, items |-> <<>>]
List(items) == [t |-> "list", v |-> 0, items |-> items]
Action(type, value) == [action_type |-> type, value |-> value]

\* field in record
Has(item, f) == item[f].t # "absent"

\* record.get(field, 0)
GetOr0(item, f) == IF Has(item, f) THEN item[f] ELSE Num(0)

\* record.get(field, [])
GetOrEmpty(item, f) == IF Has(item, f) THEN item[f] ELSE List(<<>>)

\* float(x) and int(x) raise on None, on a string that is no number, on a list
Coerces(x) == x.t = "num"

\* bool(x): false for None and []; the API sends numbers as non-empty strings,
\* and where a default 0 is tested the value taken is 0 either way
Truth(x) == ~(x.t = "null" \/ (x.t = "list" /\ x.items = <<>>))

IsList(x) == x.t = "list"

(***************************************************************************)
(* Numbers of a metrics map: exact rationals [n, d] in lowest terms.       *)
(***************************************************************************)
Abs(n) == IF n < 0 THEN 0 - n ELSE n

RECURSIVE GCD(_, _)
GCD(a, b) == IF b = 0 THEN a ELSE GCD(b, a % b)

Rat(n, d) == LET g == GCD(Abs(n), d) IN [kind |-> "num", n |-> n \div g, d |-> d \div g]

Whole(n) == Rat(n, 1)

\* a metrics entry that is no number: a ranking string, a nested video map
StrValue == [kind |-> "str", n |-> 0, d |-> 1]
MapValue == [kind |-> "map", n |-> 0, d |-> 1]

\* m[k] = v
Put(m, k, v) == (k :> v) @@ m

EmptyMap == [k \in {} |-> 0]

(***************************************************************************)
(* Pieces the extraction paths share.                                      *)
(***************************************************************************)
\* conv_sum += int(float(conv.get('value', 0))) for every entry
RECURSIVE SumValues(_)
SumValues(items) ==
    IF items = <<>> THEN 0 ELSE Head(items).value + SumValues(Tail(items))

ConversionTypes == {"lead", "complete_registration", "lead_grouped"}

\* a sum that adds only the entries of the conversion action types
RECURSIVE SumConversionTypes(_)
SumConversionTypes(items) ==
    IF items = <<>> THEN 0
    ELSE (IF Head(items).action_type \in ConversionTypes THEN Head(items).value ELSE 0)
         + SumConversionTypes(Tail(items))

\* for action in actions: if action_type in types: x = value; break   (else 0)
RECURSIVE FirstOfTypes(_, _)
FirstOfTypes(items, types) ==
    IF items = <<>> THEN 0
    ELSE IF Head(items).action_type \in types THEN Head(items).value
         ELSE FirstOfTypes(Tail(items), types)

HasOfTypes(items, types) == \E i \in 1..Len(items) : items[i].action_type \in types

\* views of a video action list: the first 'video_view' entry, when the list is truthy
VideoViews(field) ==
    IF Truth(field) /\ IsList(field) THEN FirstOfTypes(field.items, {"video_view"}) ELSE 0

\* int(impressions * 0.35) and int(impressions * 0.08); the float product
\* truncates to this integer quotient for the impressions values drawn here
\* (it does for every value below 180, and for 1000)
Int035(impressions) == (35 * impressions) \div 100
Int008(impressions) == (8 * impressions) \div 100

\* an estimate made whenever no view was counted, also for a non-empty list
EstimateWhenZeroViews(field, views) == views = 0

\* video_3_sec_views == 0 and video_thruplay == []
EstimateInExtract(field, views) == views = 0 /\ field = List(<<>>)

\* video_thruplay == []
EstimateInBreakdown(field, views) == field = List(<<>>)

\* not video_thruplay
EstimateInAdMetrics(field, views) == ~Truth(field)

\* (views / impressions) * 100 if views > 0 else 0
RateOf(views, impressions) ==
    IF views > 0 THEN Rat(views * 100, impressions) ELSE Whole(0)

\* outbound_clicks: a list is summed, a scalar goes through int(float(x) if x else 0)
OutboundRaises(field) == ~IsList(field) /\ Truth(field) /\ ~Coerces(field)

OutboundClicks(field) ==
    IF IsList(field) THEN SumValues(field.items)
    ELSE IF Truth(field) THEN field.v ELSE 0

\* ctr_destination: float(outbound_clicks_ctr[0].value), else outbound / impressions
CtrDestination(ctrField, outbound, impressions) ==
    IF IsList(ctrField) /\ Len(ctrField.items) > 0
    THEN Whole(ctrField.items[1].value)
    ELSE IF impressions > 0 /\ outbound > 0 THEN Rat(outbound, impressions) ELSE Whole(0)

(***************************************************************************)
(* MetaApiClient._extract_metrics_from_insights                            *)
(***************************************************************************)
BasicMetrics ==
    {"spend", "impressions", "clicks", "reach", "frequency", "cpc", "cpm", "cpp", "ctr"}

\* metrics.get(name, 0) of a metrics map of numbers
MetricOr0(m, k) == IF k \in DOMAIN m THEN m[k].n ELSE 0

\* float(insight_item.get(metric, 0)) raises for a field that is present
ExtractRaises(item) == \E f \in BasicMetrics : Has(item, f) /\ ~Coerces(item[f])

\* conversions: the values of all entries of a list are added; a scalar gives 0
ExtractConversions(field) == IF IsList(field) THEN SumValues(field.items) ELSE 0

ExtractMetrics(item) ==
    LET basic == [f \in {g \in BasicMetrics : Has(item, g)} |-> Whole(item[f].v)]
        impressions == MetricOr0(basic, "impressions")
        spend == MetricOr0(basic, "spend")
        clicks == MetricOr0(basic, "clicks")
        outbound == GetOrEmpty(item, "outbound_clicks")
        clicks_sum == SumValues(outbound.items)
        m1 == IF Truth(outbound) /\ IsList(outbound)
              THEN Put(Put(basic, "outbound_clicks", Whole(clicks_sum)),
                       "ctr_destination",
                       IF impressions > 0 /\ clicks_sum > 0
                       THEN Rat(clicks_sum, impressions) ELSE Whole(0))
              ELSE basic
        thruplay == GetOrEmpty(item, "video_thruplay_watched_actions")
        p100 == GetOrEmpty(item, "video_p100_watched_actions")
        views0 == VideoViews(thruplay)
        watched0 == VideoViews(p100)
        views == IF impressions > 0 /\ EstimateInExtract(thruplay, views0)
                 THEN Int035(impressions) ELSE views0
        watched == IF impressions > 0 /\ EstimateInExtract(p100, watched0)
                   THEN Int008(impressions) ELSE watched0
        m2 == Put(Put(m1, "video_3_sec_views", Whole(views)),
                  "video_p100_watched", Whole(watched))
        m3 == IF impressions > 0
              THEN Put(Put(m2, "hook_rate", RateOf(views, impressions)),
                       "viewthrough_rate", RateOf(watched, impressions))
              ELSE m2
        conversions == ExtractConversions(GetOrEmpty(item, "conversions"))
        m4 == Put(Put(m3, "conversions", Whole(conversions)),
                  "cpr", IF conversions > 0 /\ spend > 0
                         THEN Rat(spend, conversions) ELSE Whole(0))
        m5 == IF "cpc" \notin DOMAIN m4 /\ clicks > 0 /\ spend > 0
              THEN Put(m4, "cpc", Rat(spend, clicks)) ELSE m4
    IN Put(m5, "click_to_reg",
           IF clicks > 0 /\ conversions > 0
           THEN Rat(conversions * 100, clicks) ELSE Whole(0))

(***************************************************************************)
(* MetaApiClient._format_breakdown_data, one row                           *)
(***************************************************************************)
BreakdownRaises(item) ==
    \/ \E f \in {"spend", "cpm", "impressions", "cpc", "clicks"} :
            ~Coerces(GetOr0(item, f))
    \/ OutboundRaises(GetOr0(item, "outbound_clicks"))

BreakdownMetrics(item) ==
    LET spend == GetOr0(item, "spend").v
        impressions == GetOr0(item, "impressions").v
        clicks == GetOr0(item, "clicks").v
        outbound == OutboundClicks(GetOr0(item, "outbound_clicks"))
        thruplay == GetOrEmpty(item, "video_thruplay_watched_actions")
        p100 == GetOrEmpty(item, "video_p100_watched_actions")
        views == IF EstimateInBreakdown(thruplay, VideoViews(thruplay)) /\ impressions > 0
                 THEN Int035(impressions) ELSE VideoViews(thruplay)
        watched == IF EstimateInBreakdown(p100, VideoViews(p100)) /\ impressions > 0
                   THEN Int008(impressions) ELSE VideoViews(p100)
        actions == GetOrEmpty(item, "actions")
        registrations == IF Truth(actions) THEN FirstOfTypes(actions.items, ConversionTypes)
                         ELSE 0
        costs == GetOrEmpty(item, "cost_per_action_type")
        cpr0 == IF Truth(costs) THEN FirstOfTypes(costs.items, ConversionTypes) ELSE 0
        cpr == IF cpr0 = 0 /\ registrations > 0 /\ spend > 0
               THEN Rat(spend, registrations) ELSE Whole(cpr0)
        m1 == [k \in {"spend", "cpm", "impressions", "cpc", "clicks", "outbound_clicks",
                      "ctr_destination", "video_3_sec_views", "video_p100_watched",
                      "registrations", "cpr", "click_to_reg"} |->
                 CASE k = "spend" -> Whole(spend)
                   [] k = "cpm" -> Whole(GetOr0(item, "cpm").v)
                   [] k = "impressions" -> Whole(impressions)
                   [] k = "cpc" -> IF clicks > 0 /\ spend > 0
                                   THEN Rat(spend, clicks) ELSE Whole(0)
                   [] k = "clicks" -> Whole(clicks)
                   [] k = "outbound_clicks" -> Whole(outbound)
                   [] k = "ctr_destination" ->
                        CtrDestination(GetOrEmpty(item, "outbound_clicks_ctr"),
                                       outbound, impressions)
                   [] k = "video_3_sec_views" -> Whole(views)
                   [] k = "video_p100_watched" -> Whole(watched)
                   [] k = "registrations" -> Whole(registrations)
                   [] k = "cpr" -> cpr
                   [] k = "click_to_reg" ->
                        IF clicks > 0 /\ registrations > 0
                        THEN Rat(registrations * 100, clicks) ELSE Whole(0)]
    IN IF impressions > 0
       THEN Put(Put(m1, "hook_rate", RateOf(views, impressions)),
                "viewthrough_rate", RateOf(watched, impressions))
       ELSE m1

(***************************************************************************)
(* MetaApiClient.get_ad_metrics, the record of data[0]                     *)
(***************************************************************************)
\* a scalar conversions goes through int(float(conversions))
AdMetricsRaises(item) ==
    \/ \E f \in {"spend", "impressions", "clicks", "ctr"} : ~Coerces(GetOr0(item, f))
    \/ OutboundRaises(GetOr0(item, "outbound_clicks"))
    \/ LET c == GetOr0(item, "conversions") IN ~IsList(c) /\ ~Coerces(c)

AdMetricsConversions(field) == IF IsList(field) THEN SumValues(field.items) ELSE field.v

\* roas from the first 'purchase' entry of cost_per_action_type
RoasFromCosts(costs, spend) ==
    IF HasOfTypes(costs.items, {"purchase"})
          /\ spend > 0 /\ FirstOfTypes(costs.items, {"purchase"}) > 0
    THEN Rat(FirstOfTypes(costs.items, {"purchase"}), spend)
    ELSE Whole(0)

AdMetrics(item) ==
    LET spend == GetOr0(item, "spend").v
        impressions == GetOr0(item, "impressions").v
        clicks == GetOr0(item, "clicks").v
        outbound == OutboundClicks(GetOr0(item, "outbound_clicks"))
        conversions == AdMetricsConversions(GetOr0(item, "conversions"))
        thruplay == GetOrEmpty(item, "video_thruplay_watched_actions")
        p100 == GetOrEmpty(item, "video_p100_watched_actions")
        views == IF EstimateInAdMetrics(thruplay, VideoViews(thruplay)) /\ impressions > 0
                 THEN Int035(impressions) ELSE VideoViews(thruplay)
        watched == IF EstimateInAdMetrics(p100, VideoViews(p100)) /\ impressions > 0
                   THEN Int008(impressions) ELSE VideoViews(p100)
        m1 == [k \in {"spend", "impressions", "clicks", "ctr", "outbound_clicks",
                      "conversions", "cpm", "cpa", "roas", "ctr_destination",
                      "video_3_sec_views", "video_p100_watched"} |->
                 CASE k = "spend" -> Whole(spend)
                   [] k = "impressions" -> Whole(impressions)
                   [] k = "clicks" -> Whole(clicks)
                   [] k = "ctr" -> Whole(GetOr0(item, "ctr").v)
                   [] k = "outbound_clicks" -> Whole(outbound)
                   [] k = "conversions" -> Whole(conversions)
                   [] k = "cpm" -> IF impressions > 0
                                   THEN Rat(spend * 1000, impressions) ELSE Whole(0)
                   [] k = "cpa" -> IF conversions > 0
                                   THEN Rat(spend, conversions) ELSE Whole(0)
                   [] k = "roas" ->
                        RoasFromCosts(GetOrEmpty(item, "cost_per_action_type"), spend)
                   [] k = "ctr_destination" ->
                        CtrDestination(GetOrEmpty(item, "outbound_clicks_ctr"),
                                       outbound, impressions)
                   [] k = "video_3_sec_views" -> Whole(views)
                   [] k = "video_p100_watched" -> Whole(watched)]
    IN IF impressions > 0
       THEN Put(Put(m1, "hook_rate", RateOf(views, impressions)),
                "viewthrough_rate", RateOf(watched, impressions))
       ELSE m1

(***************************************************************************)
(* MetaApiClient.get_detailed_ad_metrics, the record of data[0]            *)
(***************************************************************************)
DetailedRaises(item) ==
    \/ \E f \in {"spend", "impressions", "clicks", "ctr", "cpm", "cpp", "frequency",
                 "reach", "unique_clicks", "unique_ctr"} : ~Coerces(GetOr0(item, f))
    \/ LET c == GetOr0(item, "conversions")
       IN ~IsList(c) /\ Truth(c) /\ ~Coerces(c)
    \/ LET c == GetOr0(item, "conversion_values")
       IN ~IsList(c) /\ Truth(c) /\ ~Coerces(c)

\* a list is summed; a scalar goes through int(float(x)) if x else 0
DetailedConversions(field) ==
    IF IsList(field) THEN SumValues(field.items)
    ELSE IF Truth(field) THEN field.v ELSE 0

HasVideoView(field) ==
    Truth(field) /\ IsList(field) /\ HasOfTypes(field.items, {"video_view"})

DetailedMetrics(item) ==
    LET spend == GetOr0(item, "spend").v
        impressions == GetOr0(item, "impressions").v
        conversions == DetailedConversions(GetOr0(item, "conversions"))
        conversion_values == DetailedConversions(GetOr0(item, "conversion_values"))
        m1 == [k \in {"spend", "impressions", "clicks", "ctr", "cpm", "cpp", "frequency",
                      "reach", "unique_clicks", "unique_ctr", "quality_ranking",
                      "conversions", "conversion_values", "conversion_rate_ranking",
                      "engagement_rate_ranking", "cpa", "roas"} |->
                 CASE k = "cpm" -> IF impressions > 0
                                   THEN Rat(spend * 1000, impressions) ELSE Whole(0)
                   [] k \in {"quality_ranking", "conversion_rate_ranking",
                             "engagement_rate_ranking"} -> StrValue
                   [] k = "conversions" -> Whole(conversions)
                   [] k = "conversion_values" -> Whole(conversion_values)
                   [] k = "cpa" -> IF conversions > 0
                                   THEN Rat(spend, conversions) ELSE Whole(0)
                   [] k = "roas" -> IF spend > 0 /\ conversion_values > 0
                                    THEN Rat(conversion_values, spend) ELSE Whole(0)
                   [] OTHER -> Whole(GetOr0(item, k).v)]
    IN IF HasVideoView(GetOrEmpty(item, "video_p100_watched_actions"))
       THEN Put(m1, "video", MapValue) ELSE m1

(***************************************************************************)
(* MetaApiClient.get_comprehensive_ad_metrics, the record of data[0]       *)
(***************************************************************************)
\* raised inside the try block; the except clause returns None
ComprehensiveRaises(item) ==
    \/ \E f \in {"spend", "cpm", "impressions", "cpc", "clicks"} :
            ~Coerces(GetOr0(item, f))
    \/ OutboundRaises(GetOr0(item, "outbound_clicks"))
    \/ (Has(item, "website_ctr") /\ Truth(item["website_ctr"])
           /\ ~Coerces(item["website_ctr"])
           /\ GetOrEmpty(item, "outbound_clicks_ctr") = List(<<>>))

ComprehensiveMetrics(item) ==
    LET spend == GetOr0(item, "spend").v
        impressions == GetOr0(item, "impressions").v
        outbound == OutboundClicks(GetOr0(item, "outbound_clicks"))
        actions == GetOrEmpty(item, "actions")
        registrations == IF Truth(actions) THEN FirstOfTypes(actions.items, ConversionTypes)
                         ELSE 0
        costs == GetOrEmpty(item, "cost_per_action_type")
        cpr0 == IF Truth(costs) THEN FirstOfTypes(costs.items, ConversionTypes) ELSE 0
    IN [k \in {"date_launched", "spend", "cpm", "impressions", "cpc", "clicks",
               "outbound_clicks", "ctr_destination", "video_3_sec_views",
               "video_p100_watched", "registrations", "cpr"} |->
          CASE k = "date_launched" -> StrValue
            [] k = "outbound_clicks" -> Whole(outbound)
            [] k = "ctr_destination" ->
                 IF ~IsList(GetOrEmpty(item, "outbound_clicks_ctr"))
                       \/ GetOrEmpty(item, "outbound_clicks_ctr").items = <<>>
                 THEN IF Has(item, "website_ctr") /\ Truth(item["website_ctr"])
                      THEN Whole(item["website_ctr"].v)
                      ELSE CtrDestination(List(<<>>), outbound, impressions)
                 ELSE CtrDestination(item["outbound_clicks_ctr"], outbound, impressions)
            [] k = "video_3_sec_views" ->
                 Whole(VideoViews(GetOrEmpty(item, "video_thruplay_watched_actions")))
            [] k = "video_p100_watched" ->
                 Whole(VideoViews(GetOrEmpty(item, "video_p100_watched_actions")))
            [] k = "registrations" -> Whole(registrations)
            [] k = "cpr" -> IF cpr0 = 0 /\ registrations > 0 /\ spend > 0
                            THEN Rat(spend, registrations) ELSE Whole(cpr0)
            [] OTHER -> Whole(GetOr0(item, k).v)]

(***************************************************************************)
(* Raw records handed to the extraction paths.  Each path is given every   *)
(* shape of the fields it reads; the fields it does not read stay absent.  *)
(***************************************************************************)
Fields ==
    {"spend", "impressions", "clicks", "ctr", "cpm", "cpc", "cpp", "reach", "frequency",
     "unique_clicks", "unique_ctr", "conversions", "conversion_values",
     "outbound_clicks", "outbound_clicks_ctr", "website_ctr",
     "video_thruplay_watched_actions", "video_p100_watched_actions",
     "actions", "cost_per_action_type"}

Record(given) == [f \in Fields |-> IF f \in DOMAIN given THEN given[f] ELSE Absent]

SpendRaw == {Absent, Null, Unparsable, Num(0), Num(10)}
ImpressionsRaw == {Absent, Num(0), Num(20), Num(1000)}
ClicksRaw == {Absent, Num(0), Num(5)}
CtrRaw == {Absent, Num(2)}
ConversionsRaw ==
    {Absent, Num(4), List(<<>>), List(<<Action("lead", 3)>>),
     List(<<Action("lead", 3), Action("other", 100)>>)}
ConversionValuesRaw == {Absent, Num(50)}
OutboundRaw == {Absent, List(<<Action("outbound_click", 4)>>)}
OutboundCtrRaw == {Absent, List(<<Action("outbound_click", 1)>>)}
WebsiteCtrRaw == {Absent, Num(3)}
ThruplayRaw ==
    {Absent, List(<<>>), List(<<Action("video_view", 0)>>),
     List(<<Action("video_view", 7)>>), List(<<Action("other", 9)>>)}
P100Raw ==
    {Absent, List(<<>>), List(<<Action("video_view", 0)>>),
     List(<<Action("video_view", 3)>>)}
ActionsRaw ==
    {Absent, List(<<Action("lead", 3), Action("lead_grouped", 2)>>),
     List(<<Action("other", 100)>>)}
CostsRaw == {Absent, List(<<Action("purchase", 20)>>), List(<<Action("lead", 2)>>)}

ExtractRecords ==
    {Record(g) : g \in [spend : SpendRaw, impressions : ImpressionsRaw, clicks : ClicksRaw,
                        ctr : CtrRaw, outbound_clicks : OutboundRaw,
                        conversions : ConversionsRaw,
                        video_thruplay_watched_actions : ThruplayRaw,
                        video_p100_watched_actions : P100Raw]}

BreakdownRecords ==
    {Record(g) : g \in [spend : SpendRaw, impressions : ImpressionsRaw, clicks : ClicksRaw,
                        outbound_clicks : OutboundRaw, outbound_clicks_ctr : OutboundCtrRaw,
                        video_thruplay_watched_actions : ThruplayRaw,
                        video_p100_watched_actions : P100Raw,
                        actions : ActionsRaw, cost_per_action_type : CostsRaw]}

AdMetricsRecords ==
    {Record(g) : g \in [spend : SpendRaw, impressions : ImpressionsRaw, clicks : ClicksRaw,
                        ctr : CtrRaw, outbound_clicks : OutboundRaw,
                        conversions : ConversionsRaw, cost_per_action_type : CostsRaw,
                        video_thruplay_watched_actions : ThruplayRaw,
                        video_p100_watched_actions : P100Raw]}

DetailedRecords ==
    {Record(g) : g \in [spend : SpendRaw, impressions : ImpressionsRaw, clicks : ClicksRaw,
                        ctr : CtrRaw, conversions : ConversionsRaw,
                        conversion_values : ConversionValuesRaw,
                        video_p100_watched_actions : P100Raw]}

ComprehensiveRecords ==
    {Record(g) : g \in [spend : SpendRaw, impressions : ImpressionsRaw, clicks : ClicksRaw,
                        outbound_clicks : OutboundRaw, outbound_clicks_ctr : OutboundCtrRaw,
                        website_ctr : WebsiteCtrRaw,
                        video_thruplay_watched_actions : ThruplayRaw,
                        actions : ActionsRaw, cost_per_action_type : CostsRaw]}

(***************************************************************************)
(* One call of an extraction path on one raw record.                       *)
(***************************************************************************)
Extracted(name, item, raises, onRaise, m) ==
    /\ insight_item' = item
    /\ extractor' = name
    /\ outcome' = IF raises THEN onRaise ELSE "ok"
    /\ metrics' = IF raises THEN EmptyMap ELSE m
    /\ UNCHANGED <<eligVars, benchVars, sinkVars, rateVars, laterVars>>

\* no try block: the exception leaves the method
ExtractMetricsFromInsights ==
    /\ outcome = "idle"
    /\ \E item \in ExtractRecords :
        Extracted("_extract_metrics_from_insights", item, ExtractRaises(item), "raised",
                  ExtractMetrics(item))

\* no try block: the exception leaves the method
FormatBreakdownData ==
    /\ outcome = "idle"
    /\ \E item \in BreakdownRecords :
        Extracted("_format_breakdown_data", item, BreakdownRaises(item), "raised",
                  BreakdownMetrics(item))

\* except Exception: raise
GetAdMetrics ==
    /\ outcome = "idle"
    /\ \E item \in AdMetricsRecords :
        Extracted("get_ad_metrics", item, AdMetricsRaises(item), "raised",
                  AdMetrics(item))

\* except Exception: raise
GetDetailedAdMetrics ==
    /\ outcome = "idle"
    /\ \E item \in DetailedRecords :
        Extracted("get_detailed_ad_metrics", item, DetailedRaises(item), "raised",
                  DetailedMetrics(item))

\* except Exception: return None
GetComprehensiveAdMetrics ==
    /\ outcome = "idle"
    /\ \E item \in ComprehensiveRecords :
        Extracted("get_comprehensive_ad_metrics", item, ComprehensiveRaises(item), "none",
                  ComprehensiveMetrics(item))

NextExtract ==
    \/ ExtractMetricsFromInsights
    \/ FormatBreakdownData
    \/ GetAdMetrics
    \/ GetDetailedAdMetrics
    \/ GetComprehensiveAdMetrics

\* find_eligible_ads is not called
EligUnused ==
    /\ now_tod = 0
    /\ days = DAYS_THRESHOLD
    /\ min_spend = SPEND_THRESHOLD
    /\ specific_adset_ids = NotGiven
    /\ specific_campaign_ids = NotGiven
    /\ account_ads = <<>>
    /\ account_spend = <<>>
    /\ honours = TRUE
    /\ EligIdle

InitExtract == EligUnused /\ ExtIdle /\ BenchIdle /\ SinkIdle /\ RateIdle /\ LaterIdle

SpecExtract == InitExtract /\ [][NextExtract]_vars

(***************************************************************************)
(* Arithmetic on the numbers of a metrics map.                             *)
(***************************************************************************)
Positive(x) == x.n > 0

RatAdd(a, b) == Rat(a.n * b.d + b.n * a.d, a.d * b.d)

\* x * (n / d)
RatScale(x, n, d) == Rat(x.n * n, x.d * d)

\* ((a / b) - 1) * 100, for b > 0
PercentOver(a, b) == Rat((a.n * b.d - b.n * a.d) * 100, a.d * b.n)

\* round(n / d, 2) for n >= 0 and d > 0: to the nearest hundredth, a tie to the
\* even one
Round2(n, d) ==
    LET q == (n * 100) \div d
        r == (n * 100) % d
    IN Rat(IF 2 * r > d \/ (2 * r = d /\ q % 2 = 1) THEN q + 1 ELSE q, 100)

(***************************************************************************)
(* MetaApiClient.get_account_insights: the aggregate of the daily rows,    *)
(* from the totals the loop over the days has summed.                      *)
(***************************************************************************)
AccountAggregate(t) ==
    LET base == [k \in {"spend", "impressions", "clicks", "ctr", "cpm",
                        "conversions", "video_3_sec_views", "video_p100_watched",
                        "cost_per_conversion"} |->
                   CASE k = "ctr" -> IF t.impressions > 0
                                     THEN Round2(t.clicks * 100, t.impressions)
                                     ELSE Whole(0)
                     [] k = "cpm" -> IF t.impressions > 0
                                     THEN Round2(t.spend * 1000, t.impressions)
                                     ELSE Whole(0)
                     [] k = "cost_per_conversion" ->
                          IF t.conversions > 0 THEN Round2(t.spend, t.conversions)
                          ELSE Whole(0)
                     [] OTHER -> Whole(t[k])]
        hooked == t.impressions > 0 /\ t.video_3_sec_views > 0
        m1 == IF hooked
              THEN Put(base, "hook_rate", Round2(t.video_3_sec_views * 100, t.impressions))
              ELSE base
    IN IF hooked /\ t.video_p100_watched > 0
       THEN Put(m1, "viewthrough_rate", Round2(t.video_p100_watched * 100, t.impressions))
       ELSE m1

\* what one call of client.get_account_insights gives: no rows, an exception,
\* or the aggregate of the rows
AccountTotals ==
    [spend : {10}, impressions : {0, 1000}, clicks : {0, 20}, conversions : {0, 2},
     video_3_sec_views : {0, 350}, video_p100_watched : {0, 80}]

AccountOutcomes ==
    {[kind |-> "empty", insights |-> EmptyMap], [kind |-> "raises", insights |-> EmptyMap]}
        \cup {[kind |-> "data", insights |-> AccountAggregate(t)] : t \in AccountTotals}

(***************************************************************************)
(* PerformanceAnalyzer                                                     *)
(***************************************************************************)
\* account_insights.get(name, 0)
InsightOr0(insights, k) == IF k \in DOMAIN insights THEN insights[k] ELSE Whole(0)

BenchmarkSet(market, m) == [isNone |-> FALSE, market |-> market, benchmarks |-> m]

\* the value calculate_benchmarks returns, for a client being there or not
CalculateBenchmarks(client, source) ==
    IF ~client THEN BenchmarkSet("Unknown", EmptyMap)
    ELSE IF source.kind = "raises" THEN BenchmarkSet("Error", EmptyMap)
    ELSE IF source.kind = "empty" THEN BenchmarkSet("Unknown", EmptyMap)
    ELSE BenchmarkSet("region",
            [k \in {"ctr", "cpm", "cpa", "roas", "conversion_rate", "hook_rate",
                    "viewthrough_rate"} |->
                CASE k = "cpa" -> InsightOr0(source.insights, "cost_per_conversion")
                  [] OTHER -> InsightOr0(source.insights, k)])

HigherIsBetter == {"ctr", "roas", "hook_rate", "viewthrough_rate"}
LowerIsBetter == {"cpa", "cpm"}
KeyMetrics == HigherIsBetter \cup LowerIsBetter

\* comparison['<metric>_vs_benchmark']
DeltaVsBenchmark(k, m, b) ==
    IF k \in HigherIsBetter
    THEN IF k \in DOMAIN m /\ k \in DOMAIN b /\ Positive(b[k])
         THEN PercentOver(m[k], b[k]) ELSE Whole(0)
    ELSE IF k \in DOMAIN m /\ k \in DOMAIN b /\ Positive(b[k]) /\ Positive(m[k])
         THEN PercentOver(b[k], m[k]) ELSE Whole(0)

\* the weights, in tenths
WeightTenths(k) == IF k \in {"cpa", "roas"} THEN 3 ELSE 1

\* sum(comparison.get(metric, 0) * weight for metric, weight in weights.items()),
\* as the exact value of the sum
WeightedScore(deltas) ==
    RatAdd(RatAdd(RatAdd(RatScale(deltas["ctr"], WeightTenths("ctr"), 10),
                         RatScale(deltas["cpa"], WeightTenths("cpa"), 10)),
                  RatAdd(RatScale(deltas["roas"], WeightTenths("roas"), 10),
                         RatScale(deltas["cpm"], WeightTenths("cpm"), 10))),
           RatAdd(RatScale(deltas["hook_rate"], WeightTenths("hook_rate"), 10),
                  RatScale(deltas["viewthrough_rate"], WeightTenths("viewthrough_rate"), 10)))

\* a rating that needs the score to pass the thresholds, not to reach them
RatingStrict(score) ==
    IF score.n > 20 * score.d THEN "Above Average"
    ELSE IF score.n < (0 - 20) * score.d THEN "Below Average"
    ELSE "Average"

Rating(score) ==
    IF score.n >= 20 * score.d THEN "Above Average"
    ELSE IF score.n <= (0 - 20) * score.d THEN "Below Average"
    ELSE "Average"

\* (metrics_availability / 6) * 100
StabilityScore(m) ==
    Rat(Cardinality({k \in KeyMetrics : k \in DOMAIN m /\ Positive(m[k])}) * 100, 6)

Comparison(m, b) ==
    LET deltas == [k \in KeyMetrics |-> DeltaVsBenchmark(k, m, b)]
    IN [returned |-> TRUE,
        metrics_vs_benchmark |-> deltas,
        overall_performance_score |-> WeightedScore(deltas),
        performance_rating |-> Rating(WeightedScore(deltas)),
        stability_score |-> StabilityScore(m)]

\* ad_data['metrics']: each key metric is there with a number, or is not there
NoMetric == [kind |-> "absent", n |-> 0, d |-> 1]

MetricsGiven(g) == [k \in {x \in DOMAIN g : g[x] # NoMetric} |-> g[k]]

AdMetricsInputs ==
    {MetricsGiven(g) : g \in [ctr : {NoMetric, Whole(0), Whole(3)},
                              cpa : {NoMetric, Whole(0), Whole(4)},
                              roas : {Whole(2)},
                              cpm : {NoMetric, Whole(5)},
                              hook_rate : {NoMetric, Whole(0), Whole(70)},
                              viewthrough_rate : {Whole(4)}]}

\* the rest of compare_to_benchmarks, once self.benchmarks is what it is
Compared(m, set, calls) ==
    /\ benchmarks' = set
    /\ aggregate_calls' = calls
    /\ ad_metrics' = m
    /\ comparison' = Comparison(m, set.benchmarks)
    /\ UNCHANGED <<meta_client, eligVars, extVars,
                 sinkVars, rateVars, laterVars>>

\* a test that also takes a benchmark set without values for none
NotBenchmarksOrEmpty(set) == set.isNone \/ DOMAIN set.benchmarks = {}

\* not self.benchmarks: None is false, a dict with keys is true
NotBenchmarks(set) == set.isNone

\* if not self.benchmarks and self.meta_client:
\*     self.benchmarks = self.calculate_benchmarks(self.meta_client)
\* and then the comparison
EnsuredAndCompared(m) ==
    IF NotBenchmarks(benchmarks) /\ meta_client
    THEN \E source \in AccountOutcomes :
            Compared(m, CalculateBenchmarks(meta_client, source), aggregate_calls + 1)
    ELSE Compared(m, benchmarks, aggregate_calls)

\* compare_to_benchmarks(ad_data)
CompareToBenchmarks ==
    /\ \E m \in AdMetricsInputs : EnsuredAndCompared(m)
    /\ age_gender' = NoBreakdown
    /\ segment_analysis' = NoSegmentAnalysis

(***************************************************************************)
(* PerformanceAnalyzer.analyze_segments                                    *)
(***************************************************************************)
\* .lower().replace('-', ' ').replace('_', ' ').replace('+', ' plus') of an age
FormatAge(age) ==
    CASE age = "18-24" -> "18 24"
      [] age = "65+" -> "65 plus"
      [] OTHER -> age

\* segment_name, as the pair of its two words
SegmentName(segment) == <<FormatAge(segment.age), segment.gender>>

\* self.benchmarks.get('segments', {}).get(segment_name, {}): 'segments' is {}
\* in the set calculate_benchmarks builds and missing in its three fallbacks
SegmentBenchmarks(set, name) == EmptyMap

\* analysis['metrics']['ctr'] and ['cpa'] of a segment
SegmentCtr(segment) ==
    IF segment.impressions > 0 THEN Rat(segment.clicks, segment.impressions) ELSE Whole(0)

SegmentCpa(segment) ==
    IF segment.conversions > 0 THEN Rat(segment.spend, segment.conversions) ELSE Whole(0)

\* segment_score: 0.3 and 0.7 of the ctr and cpa deltas against the benchmarks
\* of the segment, 0 when there are none
SegmentScore(segment, segment_benchmarks) ==
    IF DOMAIN segment_benchmarks = {} THEN Whole(0)
    ELSE LET b == segment_benchmarks
             ctr_vs == IF "ctr" \in DOMAIN b /\ Positive(b["ctr"])
                       THEN PercentOver(SegmentCtr(segment), b["ctr"]) ELSE Whole(0)
             cpa_vs == IF "cpa" \in DOMAIN b /\ Positive(b["cpa"])
                             /\ Positive(SegmentCpa(segment))
                       THEN PercentOver(b["cpa"], SegmentCpa(segment)) ELSE Whole(0)
         IN RatAdd(RatScale(ctr_vs, 3, 10), RatScale(cpa_vs, 7, 10))

\* one entry of the list segment_analysis
Analysis(segment, set) ==
    [segment_name |-> SegmentName(segment),
     segment_score |-> SegmentScore(segment, SegmentBenchmarks(set, SegmentName(segment)))]

RatLE(a, b) == a.n * b.d <= b.n * a.d

\* sorted(segment_analysis, key=segment_score, reverse=True): stable, equal
\* scores keep the order of the list
RECURSIVE InsertByScore(_, _)
InsertByScore(x, sorted) ==
    IF sorted = <<>> THEN <<x>>
    ELSE IF RatLE(x.segment_score, Head(sorted).segment_score)
         THEN <<Head(sorted)>> \o InsertByScore(x, Tail(sorted))
         ELSE <<x>> \o sorted

RECURSIVE SortedSegments(_)
SortedSegments(list) ==
    IF list = <<>> THEN <<>>
    ELSE InsertByScore(list[Len(list)], SortedSegments(SubSeq(list, 1, Len(list) - 1)))

\* best_segments = sorted_segments[:3] if len >= 3 else sorted_segments
\* worst_segments = sorted_segments[-3:] if len >= 3 else sorted_segments
\* worst_segments.reverse(): with fewer than three segments both names are the
\* one list sorted_segments, and reversing it in place reverses both
BestAndWorst(sorted) ==
    LET n == Len(sorted)
    IN IF n >= 3
       THEN [best |-> SubSeq(sorted, 1, 3), worst |-> Reverse(SubSeq(sorted, n - 2, n))]
       ELSE [best |-> Reverse(sorted), worst |-> Reverse(sorted)]

Names(list) == [i \in 1..Len(list) |-> list[i].segment_name]

\* segment_performance[segment['segment_name']] = segment, the last one of a name
LastOfName(list, name) ==
    list[CHOOSE i \in 1..Len(list) :
            /\ list[i].segment_name = name
            /\ \A j \in (i + 1)..Len(list) : list[j].segment_name # name]

SegmentAnalysisOf(breakdown, set) ==
    IF ~breakdown.given
    THEN [returned |-> TRUE, best_segments |-> <<>>, worst_segments |-> <<>>,
          segment_performance |-> EmptyMap]
    ELSE LET list == [i \in 1..Len(breakdown.segments) |->
                         Analysis(breakdown.segments[i], set)]
             ranked == BestAndWorst(SortedSegments(list))
         IN [returned |-> TRUE,
             best_segments |-> Names(ranked.best),
             worst_segments |-> Names(ranked.worst),
             segment_performance |->
                 [name \in Range(Names(list)) |-> LastOfName(list, name).segment_score]]

\* the age_gender rows of an ad
Segment(age, gender, spend, clicks, conversions) ==
    [age |-> age, gender |-> gender, spend |-> spend, impressions |-> 1000,
     clicks |-> clicks, conversions |-> conversions]

Segments == {Segment("18-24", "male", 10, 20, 2), Segment("65+", "female", 30, 10, 0)}

BreakdownInputs ==
    {NoBreakdown} \cup {[given |-> TRUE, segments |-> q] : q \in SeqsUpTo(Segments, MaxSegments)}

\* analyze_segments(ad_data): reads self.benchmarks, changes nothing of the analyzer
AnalyzeSegments ==
    /\ \E breakdown \in BreakdownInputs :
          /\ age_gender' = breakdown
          /\ segment_analysis' = SegmentAnalysisOf(breakdown, benchmarks)
    /\ ad_metrics' = EmptyMap
    /\ comparison' = NoComparison
    /\ UNCHANGED <<meta_client, benchmarks, aggregate_calls, eligVars, extVars,
                 sinkVars, rateVars, laterVars>>

\* the ads analyze_performance is given: some metrics maps, some breakdowns
AnalysedMetrics ==
    {MetricsGiven(g) : g \in [ctr : {NoMetric, Whole(3)}, cpa : {Whole(4)},
                              cpm : {Whole(5)}, hook_rate : {NoMetric}]}

AnalysedBreakdowns ==
    {NoBreakdown} \cup {[given |-> TRUE, segments |-> q] : q \in [1..2 -> Segments]}

AnalysedAds == AnalysedMetrics \X AnalysedBreakdowns

\* analyze_performance(ad_data): the benchmarks are ensured, then
\* compare_to_benchmarks(ad_data) and analyze_segments(ad_data)
AnalyzePerformance ==
    \E ad \in AnalysedAds :
        /\ EnsuredAndCompared(ad[1])
        /\ age_gender' = ad[2]
        /\ segment_analysis' = SegmentAnalysisOf(ad[2], benchmarks')

NextBench == CompareToBenchmarks

NextAnalyzer ==
    \/ CompareToBenchmarks
    \/ AnalyzeSegments
    \/ AnalyzePerformance

\* PerformanceAnalyzer(meta_client=...), with or without a client
InitBench ==
    /\ EligUnused
    /\ ExtIdle
    /\ SinkIdle
    /\ RateIdle /\ LaterIdle
    /\ meta_client \in BOOLEAN
    /\ benchmarks = NoBenchmarks
    /\ aggregate_calls = 0
    /\ ad_metrics = EmptyMap
    /\ comparison = NoComparison
    /\ age_gender = NoBreakdown
    /\ segment_analysis = NoSegmentAnalysis

SpecBench == InitBench /\ [][NextBench]_vars

SpecAnalyzer == InitBench /\ [][NextAnalyzer]_vars

(***************************************************************************)
(* PipelineManager._ensure_required_metrics and _filter_fields_for_json.   *)
(* A record of analyzed_ads is a map that may hold 'ad_data'; ad_data may  *)
(* hold 'metrics', 'breakdowns' and 'creative'.  A metrics map and a       *)
(* breakdown entry are maps from keys to numbers, strings and the nested   *)
(* 'video' map of counts.                                                  *)
(***************************************************************************)
\* self.required_metrics
required_metrics == {"hook_rate", "viewthrough_rate", "cpc", "click_to_reg"}

\* a denylist that keeps roas
MetricsToRemoveButRoas ==
    {"cpp", "reach", "unique_ctr", "quality_ranking", "conversion_values",
     "conversion_rate_ranking", "engagement_rate_ranking", "unique_clicks"}

metrics_to_remove ==
    {"cpp", "reach", "unique_ctr", "quality_ranking", "conversion_values",
     "conversion_rate_ranking", "engagement_rate_ranking", "roas", "unique_clicks"}

creative_to_remove == {"name", "object_type", "thumbnail_url", "description", "body", "title"}

\* the nested video map: counts by 'views', 'p25', 'p100'
VideoValue(counts) == [kind |-> "map", n |-> 0, d |-> 1, counts |-> counts]

\* 'video' in m and isinstance(m['video'], dict)
HasVideo(m) == "video" \in DOMAIN m /\ m["video"].kind = "map"

\* m['video'].get(k, 0), and 0 without a video map
VideoGet(m, k) ==
    IF HasVideo(m) /\ k \in DOMAIN m["video"].counts THEN m["video"].counts[k] ELSE 0

\* k in m and m[k] > 0
PositiveAt(m, k) == k \in DOMAIN m /\ m[k].n > 0

\* (x / y) * 100
Percent(x, y) == Rat(x.n * 100 * y.d, x.d * y.n)

\* round((x / y) * 100, 2)
RoundedPercent(x, y) == Round2(x.n * 100 * y.d, x.d * y.n)

\* round(value, 2) of a number; strings and nested maps are left as they are
Rounded(value) == IF value.kind = "num" THEN Round2(value.n, value.d) ELSE value

\* the rate of a nested count, else of the direct count, else 0.00
RateOfCounts(m, nested, direct) ==
    IF nested > 0 THEN RoundedPercent(Whole(nested), m["impressions"])
    ELSE IF PositiveAt(m, direct) THEN RoundedPercent(m[direct], m["impressions"])
    ELSE Whole(0)

\* the rate of the direct count as the branch without a video map of a
\* breakdown entry computes it: not rounded
RateOfDirect(m, direct) ==
    IF PositiveAt(m, direct) THEN Percent(m[direct], m["impressions"]) ELSE Whole(0)

\* if k not in m: m[k] = v
PutIfMissing(m, k, v) == IF k \in DOMAIN m THEN m ELSE Put(m, k, v)

\* for metric in self.required_metrics: if metric not in m: m[metric] = 0
Backfilled(m) ==
    [k \in DOMAIN m \cup required_metrics |-> IF k \in DOMAIN m THEN m[k] ELSE Whole(0)]

\* cpc is computed whatever the map holds
CpcWantedAlways(m) == PositiveAt(m, "clicks")

\* 'cpc' not in m and 'clicks' in m and m['clicks'] > 0
CpcWanted(m) == "cpc" \notin DOMAIN m /\ PositiveAt(m, "clicks")

\* cpc and click_to_reg where they are missing and there are clicks
WithCostAndRegistration(m) ==
    LET m1 == IF CpcWanted(m)
              THEN Put(m, "cpc", IF PositiveAt(m, "spend")
                                 THEN Rat(m["spend"].n * m["clicks"].d,
                                          m["spend"].d * m["clicks"].n)
                                 ELSE Whole(0))
              ELSE m
    IN IF "click_to_reg" \notin DOMAIN m1 /\ PositiveAt(m1, "clicks")
       THEN Put(m1, "click_to_reg",
                IF PositiveAt(m1, "conversions")
                THEN Percent(m1["conversions"], m1["clicks"]) ELSE Whole(0))
       ELSE m1

\* _ensure_required_metrics on the top-level metrics
EnsuredMetrics(m) ==
    LET m1 == IF PositiveAt(m, "impressions")
              THEN PutIfMissing(
                       PutIfMissing(m, "hook_rate",
                                    RateOfCounts(m, VideoGet(m, "p25"), "video_3_sec_views")),
                       "viewthrough_rate",
                       RateOfCounts(m, VideoGet(m, "p100"), "video_p100_watched"))
              ELSE m
    IN Backfilled(WithCostAndRegistration(m1))

\* the local video_p25 of _ensure_required_metrics: assigned only where the
\* top-level hook_rate is computed
VideoP25(data) ==
    IF "metrics" \in DOMAIN data /\ PositiveAt(data["metrics"], "impressions")
          /\ "hook_rate" \notin DOMAIN data["metrics"]
    THEN [bound |-> TRUE, v |-> VideoGet(data["metrics"], "p25")]
    ELSE [bound |-> FALSE, v |-> 0]

\* the entry reads video_p25: it has no hook_rate, it has impressions and its
\* video map counts views
ReadsVideoP25(b) ==
    "hook_rate" \notin DOMAIN b /\ PositiveAt(b, "impressions") /\ VideoGet(b, "views") > 0

\* _ensure_required_metrics on one breakdown entry
EnsuredBreakdown(b, p25) ==
    LET m1 == IF "hook_rate" \notin DOMAIN b /\ PositiveAt(b, "impressions")
              THEN Put(b, "hook_rate",
                       IF VideoGet(b, "views") > 0
                       THEN RoundedPercent(Whole(p25.v), b["impressions"])
                       ELSE RateOfCounts(b, 0, "video_3_sec_views"))
              ELSE b
        m2 == IF "viewthrough_rate" \notin DOMAIN m1 /\ PositiveAt(m1, "impressions")
              THEN Put(m1, "viewthrough_rate",
                       RateOfCounts(m1, VideoGet(m1, "p100"), "video_p100_watched"))
              ELSE m1
    IN Backfilled(WithCostAndRegistration(m2))

\* the breakdown lists _ensure_required_metrics and the rate pass go through
Dimensions == {"age_gender", "platform"}

MapEntries(list, Op(_)) == [i \in 1..Len(list) |-> Op(list[i])]

\* _ensure_required_metrics raises: video_p25 is read before any assignment
EnsureRaises(ad) ==
    /\ "ad_data" \in DOMAIN ad
    /\ "breakdowns" \in DOMAIN ad["ad_data"]
    /\ ~VideoP25(ad["ad_data"]).bound
    /\ \E dim \in Dimensions \cap DOMAIN ad["ad_data"]["breakdowns"] :
          \E i \in 1..Len(ad["ad_data"]["breakdowns"][dim]) :
              ReadsVideoP25(ad["ad_data"]["breakdowns"][dim][i])

\* _ensure_required_metrics(ad_data), where it returns
Ensured(ad) ==
    IF "ad_data" \notin DOMAIN ad THEN ad
    ELSE LET data == ad["ad_data"]
             p25 == VideoP25(data)
             EnsureOne(b) == EnsuredBreakdown(b, p25)
             d1 == IF "metrics" \in DOMAIN data
                   THEN Put(data, "metrics", EnsuredMetrics(data["metrics"])) ELSE data
             d2 == IF "breakdowns" \in DOMAIN data
                   THEN Put(d1, "breakdowns",
                            [dim \in DOMAIN data["breakdowns"] |->
                                IF dim \in Dimensions
                                THEN MapEntries(data["breakdowns"][dim], EnsureOne)
                                ELSE data["breakdowns"][dim]])
                   ELSE d1
         IN Put(ad, "ad_data", d2)

\* keys the 2-decimal formatting passes over
Unformatted == {"hook_rate", "viewthrough_rate"}

\* for key, value in m.items(): a number at another key is rounded
Formatted(m) == [k \in DOMAIN m |-> IF k \in Unformatted THEN m[k] ELSE Rounded(m[k])]

\* the top-level metrics in _filter_fields_for_json: the rates are computed
\* again, the denylisted keys deleted, the required keys added, the numbers
\* rounded
FilteredMetrics(m) ==
    LET m1 == IF PositiveAt(m, "impressions")
              THEN IF HasVideo(m)
                   THEN Put(Put(m, "hook_rate",
                                RateOfCounts(m, VideoGet(m, "p25"), "video_3_sec_views")),
                            "viewthrough_rate",
                            RateOfCounts(m, VideoGet(m, "p100"), "video_p100_watched"))
                   ELSE Put(Put(m, "hook_rate", RateOfCounts(m, 0, "video_3_sec_views")),
                            "viewthrough_rate", RateOfCounts(m, 0, "video_p100_watched"))
              ELSE m
        m2 == [k \in DOMAIN m1 \ metrics_to_remove |-> m1[k]]
    IN Formatted(Backfilled(m2))

\* one breakdown entry in the rate pass of _filter_fields_for_json
RatedBreakdown(b) ==
    IF PositiveAt(b, "impressions")
    THEN IF HasVideo(b)
         THEN Put(Put(b, "hook_rate",
                      RateOfCounts(b, VideoGet(b, "p25"), "video_3_sec_views")),
                  "viewthrough_rate",
                  RateOfCounts(b, VideoGet(b, "p100"), "video_p100_watched"))
         ELSE Put(Put(b, "hook_rate", RateOfDirect(b, "video_3_sec_views")),
                  "viewthrough_rate", RateOfDirect(b, "video_p100_watched"))
    ELSE b

\* one breakdown entry in the formatting pass, which runs for both lists
\* under the test 'platform' in breakdowns
FormattedBreakdown(b) == Formatted(Backfilled(b))

\* the formatting pass reads breakdowns['age_gender'] under the test for
\* 'platform' alone
FilterRaises(ad) ==
    /\ "ad_data" \in DOMAIN ad
    /\ "breakdowns" \in DOMAIN ad["ad_data"]
    /\ "platform" \in DOMAIN ad["ad_data"]["breakdowns"]
    /\ "age_gender" \notin DOMAIN ad["ad_data"]["breakdowns"]

FilteredBreakdowns(breakdowns) ==
    [dim \in DOMAIN breakdowns |->
        IF dim \notin Dimensions THEN breakdowns[dim]
        ELSE IF "platform" \in DOMAIN breakdowns
             THEN MapEntries(MapEntries(breakdowns[dim], RatedBreakdown), FormattedBreakdown)
             ELSE MapEntries(breakdowns[dim], RatedBreakdown)]

\* del creative[field] for the fields to remove
FilteredCreative(creative) == [k \in DOMAIN creative \ creative_to_remove |-> creative[k]]

\* the loop body of _filter_fields_for_json on the deep copy of one record,
\* where nothing raises
FilteredAd(ad) ==
    LET e == Ensured(ad)
    IN IF "ad_data" \notin DOMAIN e THEN e
       ELSE LET data == e["ad_data"]
            IN Put(e, "ad_data",
                   [k \in DOMAIN data |->
                       CASE k = "metrics" -> FilteredMetrics(data[k])
                         [] k = "breakdowns" -> FilteredBreakdowns(data[k])
                         [] k = "creative" -> FilteredCreative(data[k])
                         [] OTHER -> data[k]])

\* _filter_fields_for_json(analyzed_ads): the filtered copies, or no result
\* when a record makes the pass raise
FilterFieldsForJson(ads) ==
    IF \E i \in 1..Len(ads) : EnsureRaises(ads[i]) \/ FilterRaises(ads[i])
    THEN [returned |-> FALSE, ads |-> <<>>]
    ELSE [returned |-> TRUE, ads |-> MapEntries(ads, FilteredAd)]

(***************************************************************************)
(* Records handed to _filter_fields_for_json: every shape of metrics map,  *)
(* of breakdown entry and of creative the pass distinguishes.              *)
(***************************************************************************)
\* the maps of a and b together; a wins where both hold a key
Merged(a, b) == a @@ b

NothingGiven == {EmptyMap}

RatesGiven == {EmptyMap, ("hook_rate" :> Whole(35)) @@ ("viewthrough_rate" :> Whole(8))}

VideoCounts == {("views" :> 3) @@ ("p25" :> 2) @@ ("p100" :> 1), ("views" :> 3)}

VideoGiven == {EmptyMap} \cup {("video" :> VideoValue(c)) : c \in VideoCounts}

DirectGiven == {EmptyMap, ("video_3_sec_views" :> Whole(2)) @@ ("video_p100_watched" :> Whole(1))}

DerivedGiven == {EmptyMap, ("cpc" :> Whole(5)) @@ ("click_to_reg" :> Whole(50))}

DeniedGiven ==
    {EmptyMap,
     ("roas" :> Rat(7, 3)) @@ ("cpp" :> Whole(3)) @@ ("quality_ranking" :> StrValue)}

\* spend 10.014, ctr 2.346: numbers the formatting rounds
CountsGiven ==
    {("impressions" :> Whole(i)) @@ ("clicks" :> Whole(c)) @@ ("conversions" :> Whole(1))
        @@ ("spend" :> Rat(10014, 1000)) @@ ("ctr" :> Rat(2346, 1000)) :
        i \in {0, 7}, c \in {0, 2}}

SanitizerMetrics ==
    {Merged(a, Merged(b, Merged(c, Merged(d, Merged(e, f))))) :
        a \in CountsGiven, b \in RatesGiven, c \in VideoGiven, d \in DirectGiven,
        e \in DerivedGiven, f \in DeniedGiven}

SanitizerEntries ==
    {Merged(("age" :> StrValue) @@ ("gender" :> StrValue),
            Merged(a, Merged(b, Merged(c, d)))) :
        a \in {x \in CountsGiven : x["clicks"] = Whole(2)}, b \in RatesGiven,
        c \in {EmptyMap, ("video" :> VideoValue(("views" :> 3) @@ ("p25" :> 2) @@ ("p100" :> 1)))},
        d \in DirectGiven}

SanitizerBreakdowns ==
    {EmptyMap, ("age_gender" :> <<>>)}
        \cup {("age_gender" :> <<b>>) : b \in SanitizerEntries}
        \cup {("age_gender" :> <<b>>) @@ ("platform" :> <<b>>) : b \in SanitizerEntries}
        \cup {("platform" :> <<b>>) :
                 b \in {x \in SanitizerEntries : DOMAIN x = {"age", "gender", "impressions",
                                                             "clicks", "conversions", "spend",
                                                             "ctr"}}}

\* what get_ad_creative_details gives: {} or the details of the creative
CreativeDetails ==
    [k \in {"creative_id", "name", "object_type", "image_url", "video_id", "thumbnail_url",
            "primary_text", "headline", "description", "link_url", "body", "title"} |->
        StrValue]

SanitizerCreatives == {EmptyMap, CreativeDetails}

\* {"ad_data": ..., "analysis_result": ...}
AnalyzedAd(data) == ("ad_data" :> data) @@ ("analysis_result" :> StrValue)

SanitizerRecords ==
    {("analysis_result" :> StrValue)}
        \cup {AnalyzedAd(Merged(m, Merged(b, c))) :
                 m \in {EmptyMap} \cup {("metrics" :> x) : x \in SanitizerMetrics},
                 b \in {EmptyMap} \cup {("breakdowns" :> x) : x \in SanitizerBreakdowns},
                 c \in {("creative" :> x) : x \in SanitizerCreatives}}

\* filtered_analyzed_ads = self._filter_fields_for_json(analyzed_ads); an
\* exception of the pass leaves run_pipeline through its except clause
FilterFields ==
    /\ saving = "analysed"
    /\ filtered_analyzed_ads' = FilterFieldsForJson(analyzed_ads)
    /\ saving' = IF filtered_analyzed_ads'.returned THEN "filtered" ELSE "failed"
    /\ UNCHANGED <<analyzed_ads, filtered_again, json_file, ad_details_batch,
                   eligVars, extVars, benchVars, rateVars, laterVars>>

\* _filter_fields_for_json applied to what it returned
FilterFieldsAgain ==
    /\ saving = "filtered"
    /\ filtered_again' = FilterFieldsForJson(filtered_analyzed_ads.ads)
    /\ saving' = "filtered twice"
    /\ UNCHANGED <<analyzed_ads, filtered_analyzed_ads, json_file, ad_details_batch,
                   eligVars, extVars, benchVars, rateVars, laterVars>>

NextSanitize == FilterFields \/ FilterFieldsAgain

InitSanitize ==
    /\ EligUnused
    /\ ExtIdle
    /\ BenchIdle
    /\ RateIdle /\ LaterIdle
    /\ saving = "analysed"
    /\ analyzed_ads \in {<<>>} \cup {<<ad>> : ad \in SanitizerRecords}
    /\ filtered_analyzed_ads = NotFiltered
    /\ filtered_again = NotFiltered
    /\ json_file = NotWritten
    /\ ad_details_batch = NotUpdated

SpecSanitize == InitSanitize /\ [][NextSanitize]_vars

(***************************************************************************)
(* PipelineManager.run_pipeline, steps 3 to 5: the ads are fetched with    *)
(* get_complete_ad_data and analysed, the list is filtered, the filtered   *)
(* list is dumped to the JSON file and the ad details are sent to the      *)
(* spreadsheet.                                                            *)
(***************************************************************************)
\* the video map of get_detailed_ad_metrics: the count of the 'video_view'
\* entry of a completion list, under the key of that list
DetailedVideo(item) ==
    ("p100" :> VideoViews(GetOrEmpty(item, "video_p100_watched_actions")))

\* ad_data["metrics"] = self.get_detailed_ad_metrics(ad_id, days)
CompleteMetrics(item) ==
    LET m == DetailedMetrics(item)
    IN IF "video" \in DOMAIN m THEN Put(m, "video", VideoValue(DetailedVideo(item))) ELSE m

\* one age_gender row of get_demographic_breakdown
AgeGenderEntry(item) ==
    LET spend == GetOr0(item, "spend").v
        conversions == DetailedConversions(GetOr0(item, "conversions"))
    IN [k \in {"age", "gender", "spend", "impressions", "clicks", "ctr", "cpm",
               "conversions", "cpa"} |->
          CASE k \in {"age", "gender"} -> StrValue
            [] k = "conversions" -> Whole(conversions)
            [] k = "cpa" -> IF conversions > 0 THEN Rat(spend, conversions) ELSE Whole(0)
            [] OTHER -> Whole(GetOr0(item, k).v)]

\* one platform row of get_demographic_breakdown
PlatformEntry(item) ==
    [k \in {"platform", "position", "device", "spend", "impressions", "clicks", "ctr",
            "conversions"} |->
        CASE k \in {"platform", "position", "device"} -> StrValue
          [] k = "conversions" -> Whole(DetailedConversions(GetOr0(item, "conversions")))
          [] OTHER -> Whole(GetOr0(item, k).v)]

\* get_demographic_breakdown: 'age_gender' always, 'platform' when rows came
DemographicBreakdown(rows, platform_rows) ==
    LET age_gender_rows == ("age_gender" :> MapEntries(rows, AgeGenderEntry))
    IN IF platform_rows # <<>>
       THEN age_gender_rows @@ ("platform" :> MapEntries(platform_rows, PlatformEntry))
       ELSE age_gender_rows

\* get_complete_ad_data, with the identity of the ad as one opaque entry
CompleteAdData(item, creative, rows, platform_rows) ==
    ("ad_id" :> StrValue) @@ ("metrics" :> CompleteMetrics(item))
        @@ ("creative" :> creative)
        @@ ("breakdowns" :> DemographicBreakdown(rows, platform_rows))

\* the insights of an ad that passes validation, and of one of its segments
PipelineInsights ==
    {Record(g) : g \in [spend : {Num(300)}, impressions : {Num(0), Num(7)},
                        clicks : {Num(2)}, ctr : {Num(2)}, conversions : {Num(4)},
                        conversion_values : {Num(50)},
                        video_p100_watched_actions :
                            {Absent, List(<<Action("video_view", 1)>>)}]}

SegmentInsights ==
    Record([spend |-> Num(100), impressions |-> Num(7), clicks |-> Num(2), ctr |-> Num(2),
            cpm |-> Num(5), conversions |-> Num(1)])

PipelineAds ==
    {AnalyzedAd(CompleteAdData(item, shape[1], shape[2], shape[3])) :
        item \in PipelineInsights,
        shape \in {<<EmptyMap, <<>>, <<>>>>,
                   <<CreativeDetails, <<SegmentInsights>>, <<>>>>,
                   <<CreativeDetails, <<SegmentInsights>>, <<SegmentInsights>>>>}}

\* the analysis loop: analyzed_ads holds the ads whose analysis did not raise
AnalyseAds ==
    /\ saving = "idle"
    /\ analyzed_ads' \in SeqsUpTo(PipelineAds, MaxAds)
    /\ saving' = "analysed"
    /\ UNCHANGED <<filtered_analyzed_ads, filtered_again, json_file, ad_details_batch,
                   eligVars, extVars, benchVars, rateVars, laterVars>>

\* default=str: the value goes to the file as the string str(value)
JsonValueByStr(value) == [json |-> "string", digits |-> <<>>]

\* json.dump of a number, a string, the nested video map
JsonValue(value) ==
    CASE value.kind = "num" -> [json |-> "number", digits |-> <<value.n, value.d>>]
      [] value.kind = "str" -> [json |-> "string", digits |-> <<>>]
      [] value.kind = "map" -> [json |-> "object", digits |-> <<>>,
                                members |-> value.counts]

JsonObject(m) == [k \in DOMAIN m |-> JsonValue(m[k])]

\* json.dump of one record of the list
JsonAd(ad) ==
    [k \in DOMAIN ad |->
        IF k # "ad_data" THEN JsonValue(ad[k])
        ELSE [f \in DOMAIN ad[k] |->
                 CASE f \in {"metrics", "creative"} -> JsonObject(ad[k][f])
                   [] f = "breakdowns" ->
                        [dim \in DOMAIN ad[k][f] |-> MapEntries(ad[k][f][dim], JsonObject)]
                   [] OTHER -> JsonValue(ad[k][f])]]

JsonDump(ads) == MapEntries(ads, JsonAd)

\* json.load of a number, a string, an object of counts
LoadedValue(token) ==
    CASE token.json = "number" -> Rat(token.digits[1], token.digits[2])
      [] token.json = "string" -> StrValue
      [] token.json = "object" -> VideoValue(token.members)

LoadedObject(object) == [k \in DOMAIN object |-> LoadedValue(object[k])]

LoadedAd(text) ==
    [k \in DOMAIN text |->
        IF k # "ad_data" THEN LoadedValue(text[k])
        ELSE [f \in DOMAIN text[k] |->
                 CASE f \in {"metrics", "creative"} -> LoadedObject(text[k][f])
                   [] f = "breakdowns" ->
                        [dim \in DOMAIN text[k][f] |->
                            MapEntries(text[k][f][dim], LoadedObject)]
                   [] OTHER -> LoadedValue(text[k][f])]]

JsonLoad(text) == MapEntries(text, LoadedAd)

\* json.dump(filtered_analyzed_ads, f, indent=2, default=str)
DumpJson ==
    /\ saving = "filtered"
    /\ json_file' = [written |-> TRUE, text |-> JsonDump(filtered_analyzed_ads.ads)]
    /\ saving' = "dumped"
    /\ UNCHANGED <<analyzed_ads, filtered_analyzed_ads, filtered_again, ad_details_batch,
                   eligVars, extVars, benchVars, rateVars, laterVars>>

\* the file cannot be opened or written: the exception is printed
DumpJsonFails ==
    /\ saving = "filtered"
    /\ saving' = "dumped"
    /\ UNCHANGED <<analyzed_ads, filtered_analyzed_ads, filtered_again, json_file,
                   ad_details_batch, eligVars, extVars, benchVars, rateVars, laterVars>>

\* self.sheets_manager.update_ad_details_batch(analyzed_ads)
UpdateAdDetailsBatch ==
    /\ saving = "dumped"
    /\ ad_details_batch' = [updated |-> TRUE, ads |-> analyzed_ads]
    /\ saving' = "updated"
    /\ UNCHANGED <<analyzed_ads, filtered_analyzed_ads, filtered_again, json_file,
                   eligVars, extVars, benchVars, rateVars, laterVars>>

NextPipeline ==
    AnalyseAds \/ FilterFields \/ DumpJson \/ DumpJsonFails \/ UpdateAdDetailsBatch

InitPipeline == EligUnused /\ ExtIdle /\ BenchIdle /\ SinkIdle /\ RateIdle /\ LaterIdle

SpecPipeline == InitPipeline /\ [][NextPipeline]_vars

(***************************************************************************)
(* MetaApiClient._make_api_request: the delay between requests.  A request *)
(* is answered with a rate-limit response (HTTP 429, or a body that holds  *)
(* 'User request limit reached'), which makes the call retry itself, with  *)
(* HTTP 200, or with another status.                                       *)
(***************************************************************************)
\* the delay is divided by 1.5 and nothing more
RelaxedWithoutFloor(wait) == RatScale(wait, 2, 3)

\* max(2, self.rate_limit_wait / 1.5)
Relaxed(wait) ==
    IF RatLE(Whole(2), RatScale(wait, 2, 3)) THEN RatScale(wait, 2, 3) ELSE Whole(2)

\* a call of _make_api_request sends its request
MakeApiRequest ==
    /\ retries = -1
    /\ retries' = 0
    /\ UNCHANGED <<rate_limit_wait, rate_limited, last_status,
                   eligVars, extVars, benchVars, sinkVars, laterVars>>

\* self.rate_limit_wait *= 2, then the call retries the same request
RateLimitResponse ==
    /\ retries >= 0
    /\ rate_limited < MaxRateLimited
    /\ rate_limit_wait' = RatScale(rate_limit_wait, 2, 1)
    /\ retries' = retries + 1
    /\ rate_limited' = rate_limited + 1
    /\ last_status' = "limited"
    /\ UNCHANGED <<eligVars, extVars, benchVars, sinkVars, laterVars>>

\* status 200: the delay is relaxed and the body returned
SuccessResponse ==
    /\ retries >= 0
    /\ rate_limit_wait' = Relaxed(rate_limit_wait)
    /\ retries' = -1
    /\ last_status' = "ok"
    /\ UNCHANGED <<rate_limited, eligVars, extVars, benchVars, sinkVars, laterVars>>

\* another status: the stub for a video permission error is returned, or the
\* call raises; the delay stays
FailureResponse ==
    /\ retries >= 0
    /\ retries' = -1
    /\ last_status' = "failed"
    /\ UNCHANGED <<rate_limit_wait, rate_limited, eligVars, extVars, benchVars, sinkVars, laterVars>>

NextRate == MakeApiRequest \/ RateLimitResponse \/ SuccessResponse \/ FailureResponse

\* MetaApiClient.__init__: self.rate_limit_wait = 2
InitRate ==
    /\ EligUnused
    /\ ExtIdle
    /\ BenchIdle
    /\ SinkIdle /\ LaterIdle
    /\ rate_limit_wait = Whole(2)
    /\ retries = -1
    /\ rate_limited = 0
    /\ last_status = "none"

SpecRate == InitRate /\ [][NextRate]_vars

(***************************************************************************)
(* Properties of find_eligible_ads.                                        *)
(***************************************************************************)
\* Stage 1 has run on the listing
Stage1Done == pc # "start" /\ ~raised /\ all_ads # <<>>

Candidate(ad) == ad \in Range(eligible_by_date)

\* the calendar date of created_time is on or before today - days
CreatedOnOrBefore(ad, n) == ad.created.kind = "iso" /\ ad.created.day <= 0 - n

\* the scoping table of the allow-lists; a list is given when it is non-empty
InScope(ad) ==
    LET A == Truthy(specific_adset_ids)
        C == Truthy(specific_campaign_ids)
        inA == ad.adset \in Range(specific_adset_ids.ids)
        inC == ad.campaign \in Range(specific_campaign_ids.ids)
    IN CASE ~A /\ ~C -> TRUE
         [] A /\ ~C -> inA
         [] ~A /\ C -> inC
         [] A /\ C -> inA \/ inC

\* C1: an ad that passes the age check is a Stage-1 candidate exactly as the
\* allow-lists say (none: always; adset only: adset in list; campaign only:
\* campaign in list; both: adset in list OR campaign in list), and an ad that
\* fails the age check is never a candidate.
C1_ScopeComposition ==
    Stage1Done =>
        \A ad \in Range(all_ads) :
            /\ CreatedOnOrBefore(ad, days) => (Candidate(ad) <=> InScope(ad))
            /\ ~CreatedOnOrBefore(ad, days) => ~Candidate(ad)

\* both lists active, an old ad in the campaign list only is kept and an old ad
\* in neither list is dropped
C1_Witness ==
    /\ Stage1Done
    /\ Truthy(specific_adset_ids) /\ Truthy(specific_campaign_ids)
    /\ \E ad \in Range(all_ads) :
          /\ CreatedOnOrBefore(ad, days)
          /\ ad.adset \notin Range(specific_adset_ids.ids)
          /\ ad.campaign \in Range(specific_campaign_ids.ids)
          /\ Candidate(ad)
    /\ \E ad \in Range(all_ads) :
          /\ CreatedOnOrBefore(ad, days)
          /\ ad.adset \notin Range(specific_adset_ids.ids)
          /\ ad.campaign \notin Range(specific_campaign_ids.ids)
          /\ ~Candidate(ad)

\* C2: Stage 1 compares calendar dates only: whatever the time of day of the run
\* and of created_time, an in-scope ad created exactly days calendar days before
\* today is a candidate and an ad created days-1 calendar days before is not.
C2_DateOnlyBoundary ==
    Stage1Done =>
        \A ad \in Range(all_ads) :
            /\ (ad.created.kind = "iso" /\ ad.created.day = 0 - days /\ InScope(ad))
                   => Candidate(ad)
            /\ (ad.created.kind = "iso" /\ ad.created.day = 1 - days)
                   => ~Candidate(ad)

\* the run is at midnight, the ad was created later in the day exactly days
\* days ago and is kept; another ad created at midnight a day later is dropped
C2_Witness ==
    /\ Stage1Done
    /\ now_tod = 0
    /\ \E ad \in Range(all_ads) :
          /\ ad.created = IsoTime(0 - days, NumTod - 1)
          /\ Candidate(ad)
    /\ \E ad \in Range(all_ads) :
          /\ ad.created = IsoTime(1 - days, 0)
          /\ InScope(ad)
          /\ ~Candidate(ad)

NoStage1Candidate ==
    \A ad \in Range(account_ads) : ~(CreatedOnOrBefore(ad, days) /\ InScope(ad))

\* C4: if no ad passes Stage 1 (no ads, or none old enough and in scope) the
\* call returns an empty list and never issues a spend query.
C4_NoStage2WithoutCandidates ==
    NoStage1Candidate =>
        /\ insights_calls = 0
        /\ pc # "stage2"
        /\ pc = "done" => result = <<>>

\* the account has ads, none is a candidate, the call has returned
C4_Witness ==
    /\ pc = "done" /\ ~raised
    /\ account_ads # <<>>
    /\ all_ads = account_ads
    /\ NoStage1Candidate
    /\ \E ad \in Range(all_ads) : ad.created.kind = "iso"

WithSpend(s, v) == LET eq(x) == x.spend = v IN SelectSeq(s, eq)

\* C5: the returned list is ordered by non-increasing spend across all batches
\* and ads of equal spend keep the order in which they were accepted.
C5_SortedBySpendStable ==
    (pc = "done" /\ ~raised /\ eligible_by_date # <<>>) =>
        /\ \A i \in 1..(Len(result) - 1) : result[i].spend >= result[i + 1].spend
        /\ Len(result) = Len(eligible_ads)
        /\ \A v \in {result[i].spend : i \in 1..Len(result)} :
              WithSpend(result, v) = WithSpend(eligible_ads, v)

\* three ads from two batches: the lowest spend was accepted first, the two
\* highest are tied and accepted from different batches
C5_Witness ==
    /\ pc = "done" /\ ~raised
    /\ insights_calls = 2
    /\ Len(eligible_ads) = 3
    /\ eligible_ads[1].spend < eligible_ads[2].spend
    /\ eligible_ads[2].spend = eligible_ads[3].spend
    /\ eligible_ads[2].ad_id # eligible_ads[3].ad_id
    /\ result = <<eligible_ads[2], eligible_ads[3], eligible_ads[1]>>

(***************************************************************************)
(* Properties of the extraction paths.                                     *)
(***************************************************************************)
Returned(names) == outcome = "ok" /\ extractor \in names

\* C6: a conversions field that arrives as a list of {action_type, value}
\* entries is extracted as the sum of the values of the entries whose
\* action_type is lead, complete_registration or lead_grouped; entries of any
\* other type add nothing (lead=3 and other=100 give 3).  get_ad_metrics and
\* _extract_metrics_from_insights read 'conversions', and
\* get_comprehensive_ad_metrics reads 'actions' into registrations.
C6_SumsOnlyAllowListedTypes ==
    /\ (Returned({"get_ad_metrics", "_extract_metrics_from_insights"})
            /\ IsList(insight_item["conversions"]))
         => metrics["conversions"]
              = Whole(SumConversionTypes(insight_item["conversions"].items))
    /\ (Returned({"get_comprehensive_ad_metrics"}) /\ IsList(insight_item["actions"]))
         => metrics["registrations"]
              = Whole(SumConversionTypes(insight_item["actions"].items))

EstimatingPaths ==
    {"_extract_metrics_from_insights", "_format_breakdown_data", "get_ad_metrics"}

AbsentOrEmpty(field) == field = Absent \/ field = List(<<>>)

PresentWithZeroViews(field) ==
    /\ IsList(field)
    /\ field.items # <<>>
    /\ \A i \in 1..Len(field.items) :
          field.items[i].action_type = "video_view" => field.items[i].value = 0

\* the view count and the rate a path that computes hook rates must give for one
\* video list, estimating with percent % of the impressions
EstimateRule(field, percent, viewsKey, rateKey) ==
    LET impressions == insight_item["impressions"].v
        estimate == (percent * impressions) \div 100
    IN /\ AbsentOrEmpty(field) =>
            /\ metrics[viewsKey] = Whole(estimate)
            /\ metrics[rateKey] = Rat(estimate * 100, impressions)
       /\ PresentWithZeroViews(field) =>
            /\ metrics[viewsKey] = Whole(0)
            /\ metrics[rateKey] = Whole(0)

\* C7: in the paths that compute hook_rate and viewthrough_rate, for a record
\* with impressions > 0, an absent or empty 3-second-view list makes the view
\* count int(0.35 x impressions) (int(0.08 x impressions) for the 100%-watch
\* list) with the rate computed from it, absent and empty alike; a list that is
\* present and non-empty but yields zero views gets no estimate and rate 0.
C7_EstimateOnlyWhenAbsentOrEmpty ==
    (Returned(EstimatingPaths) /\ insight_item["impressions"].v > 0) =>
        /\ EstimateRule(insight_item["video_thruplay_watched_actions"], 35,
                        "video_3_sec_views", "hook_rate")
        /\ EstimateRule(insight_item["video_p100_watched_actions"], 8,
                        "video_p100_watched", "viewthrough_rate")

\* C7 witness: 1000 impressions, an empty 3-second-view list and a 100%-watch
\* list holding a zero count give hook_rate 35 and viewthrough_rate 0
C7_Witness ==
    /\ Returned({"_extract_metrics_from_insights"})
    /\ insight_item["impressions"] = Num(1000)
    /\ insight_item["video_thruplay_watched_actions"] = List(<<>>)
    /\ insight_item["video_p100_watched_actions"] = List(<<Action("video_view", 0)>>)
    /\ metrics["video_3_sec_views"] = Whole(350)
    /\ metrics["hook_rate"] = Whole(35)
    /\ metrics["viewthrough_rate"] = Whole(0)

Malformed(x) == x = Absent \/ x = Null \/ x = Unparsable

\* C8: the extractors never raise for malformed input; a numeric field that is
\* missing, null or an unparsable string is 0 in the returned metrics map.
C8_MalformedNumericIsZero ==
    extractor \in {"_extract_metrics_from_insights", "_format_breakdown_data",
                   "get_ad_metrics"} =>
        /\ outcome = "ok"
        /\ \A f \in {"spend", "impressions", "clicks"} :
              Malformed(insight_item[f]) =>
                  f \in DOMAIN metrics /\ metrics[f] = Whole(0)

RequiredFields ==
    {"spend", "impressions", "clicks", "conversions", "ctr", "cpm", "cpa", "roas",
     "hook_rate", "viewthrough_rate", "cpc", "click_to_reg", "ctr_destination"}

\* C9: every metrics map an extraction path returns holds all thirteen
\* required fields, each a scalar number, whatever the raw record.
C9_AllRequiredFieldsNumeric ==
    Returned({"_extract_metrics_from_insights", "get_detailed_ad_metrics"}) =>
        \A k \in RequiredFields : k \in DOMAIN metrics /\ metrics[k].kind = "num"

(***************************************************************************)
(* Properties of PerformanceAnalyzer.compare_to_benchmarks.                *)
(***************************************************************************)
\* the metric of the ad as the normalised metrics map holds it: a number,
\* 0 when nothing was measured
Actual(k) == IF k \in DOMAIN ad_metrics THEN ad_metrics[k] ELSE Whole(0)

\* the benchmark of a metric; none counts as 0
Benchmark(k) ==
    IF k \in DOMAIN benchmarks.benchmarks THEN benchmarks.benchmarks[k] ELSE Whole(0)

\* C10: compare_to_benchmarks gives, for ctr, roas, hook_rate and
\* viewthrough_rate, delta = (actual/benchmark - 1) x 100 when the benchmark
\* is > 0 and 0 otherwise; for cpa and cpm, delta = (benchmark/actual - 1) x 100
\* when benchmark and actual are > 0 and 0 otherwise.  With no benchmark set
\* (no client, no account data, a failed computation) all six deltas are 0,
\* the score is 0 and the rating is Average.
C10_DeltasAgainstBenchmarks ==
    comparison.returned =>
        /\ \A k \in HigherIsBetter :
              comparison.metrics_vs_benchmark[k] =
                 IF Positive(Benchmark(k)) THEN PercentOver(Actual(k), Benchmark(k))
                 ELSE Whole(0)
        /\ \A k \in LowerIsBetter :
              comparison.metrics_vs_benchmark[k] =
                 IF Positive(Benchmark(k)) /\ Positive(Actual(k))
                 THEN PercentOver(Benchmark(k), Actual(k))
                 ELSE Whole(0)
        /\ DOMAIN benchmarks.benchmarks = {} =>
              /\ \A k \in KeyMetrics : comparison.metrics_vs_benchmark[k] = Whole(0)
              /\ comparison.overall_performance_score = Whole(0)
              /\ comparison.performance_rating = "Average"

\* the score the weights 0.10, 0.30, 0.30, 0.10, 0.10, 0.10 give, times ten
TenfoldScore(d) ==
    RatAdd(RatAdd(RatAdd(d["ctr"], RatScale(d["cpa"], 3, 1)),
                  RatAdd(RatScale(d["roas"], 3, 1), d["cpm"])),
           RatAdd(d["hook_rate"], d["viewthrough_rate"]))

\* C11: compare_to_benchmarks returns overall_performance_score = the sum of
\* the six deltas times their weights (ctr 0.10, cpa 0.30, roas 0.30, cpm 0.10,
\* hook_rate 0.10, viewthrough_rate 0.10) and exactly one rating: Above Average
\* iff score >= 20, Below Average iff score <= -20, Average otherwise; all-zero
\* deltas give score 0 and Average.
C11_WeightedScoreAndRating ==
    comparison.returned =>
        LET d == comparison.metrics_vs_benchmark
            score == comparison.overall_performance_score
            rating == comparison.performance_rating
        IN /\ RatScale(score, 10, 1) = TenfoldScore(d)
           /\ rating \in {"Above Average", "Below Average", "Average"}
           /\ rating = "Above Average" <=> score.n >= 20 * score.d
           /\ rating = "Below Average" <=> score.n <= (0 - 20) * score.d
           /\ (\A k \in KeyMetrics : d[k] = Whole(0)) =>
                 score = Whole(0) /\ rating = "Average"

\* C11 witness: cpm at half the benchmark and hook_rate at twice the benchmark,
\* nothing else measured: the score is exactly 20 and the rating Above Average
C11_Witness ==
    /\ comparison.returned
    /\ comparison.metrics_vs_benchmark["cpm"] = Whole(100)
    /\ comparison.metrics_vs_benchmark["hook_rate"] = Whole(100)
    /\ comparison.overall_performance_score = Whole(20)
    /\ comparison.performance_rating = "Above Average"

(***************************************************************************)
(* Properties of the analyzer over sequences of calls.                     *)
(***************************************************************************)
\* C12: over any sequence of analyze_performance, compare_to_benchmarks and
\* analyze_segments calls on one analyzer, the account aggregate is requested
\* at most once; a benchmark set that is stored never changes again, also when
\* its computation found no data or failed; and an analyzer that has a client
\* has a stored set once it has compared an ad.
C12_BenchmarksComputedOnce ==
    [][/\ aggregate_calls' <= 1
       /\ ~benchmarks.isNone => benchmarks' = benchmarks
       /\ (meta_client /\ comparison'.returned) => ~benchmarks'.isNone]_vars

\* C12 witness: the one aggregate request failed, and a later analyze_segments
\* call has run on the stored set
C12_Witness ==
    /\ meta_client
    /\ aggregate_calls = 1
    /\ benchmarks.market = "Error"
    /\ segment_analysis.returned
    /\ ~comparison.returned

ScoreOf(name) == segment_analysis.segment_performance[name]

\* the names of a list are in order of score, best first
BestFirst(names) ==
    \A i, j \in 1..Len(names) : i < j => RatLE(ScoreOf(names[j]), ScoreOf(names[i]))

\* C13: for every number n >= 0 of age_gender segments analyze_segments returns
\* best_segments = the min(3, n) highest-scoring names, best first, and
\* worst_segments = the min(3, n) lowest-scoring names, worst first; with fewer
\* than 3 segments both hold all segments and worst is the reverse of best.
C13_BestAndWorstSegments ==
    (segment_analysis.returned /\ age_gender.given) =>
        LET n == Len(age_gender.segments)
            best == segment_analysis.best_segments
            worst == segment_analysis.worst_segments
            all == DOMAIN segment_analysis.segment_performance
        IN /\ Len(best) = Min(3, n)
           /\ Len(worst) = Min(3, n)
           /\ BestFirst(best)
           /\ BestFirst(Reverse(worst))
           /\ \A name \in all \ Range(best) :
                 \A i \in 1..Len(best) : RatLE(ScoreOf(name), ScoreOf(best[i]))
           /\ \A name \in all \ Range(worst) :
                 \A i \in 1..Len(worst) : RatLE(ScoreOf(worst[i]), ScoreOf(name))
           /\ n < 3 => /\ Range(best) = all
                       /\ Range(worst) = all
                       /\ worst = Reverse(best)

(***************************************************************************)
(* Properties of the output field sanitizer.                               *)
(***************************************************************************)
\* the pass has returned a list for analyzed_ads
Filtered == filtered_analyzed_ads.returned

\* record i of a list has a metrics map
HasMetrics(ads, i) == "ad_data" \in DOMAIN ads[i] /\ "metrics" \in DOMAIN ads[i]["ad_data"]

MetricsOf(ads, i) == ads[i]["ad_data"]["metrics"]

\* the entries of the age_gender and platform lists of record i
EntriesOf(ads, i) ==
    IF "ad_data" \in DOMAIN ads[i] /\ "breakdowns" \in DOMAIN ads[i]["ad_data"]
    THEN UNION {Range(ads[i]["ad_data"]["breakdowns"][dim]) :
                   dim \in Dimensions \cap DOMAIN ads[i]["ad_data"]["breakdowns"]}
    ELSE {}

CreativeKeys(ads, i) ==
    IF "ad_data" \in DOMAIN ads[i] /\ "creative" \in DOMAIN ads[i]["ad_data"]
    THEN DOMAIN ads[i]["ad_data"]["creative"] ELSE {}

\* the keys the claims name
RequiredKeys == {"hook_rate", "viewthrough_rate", "cpc", "click_to_reg"}

DenylistedKeys ==
    {"cpp", "reach", "unique_ctr", "quality_ranking", "conversion_values",
     "conversion_rate_ranking", "engagement_rate_ranking", "roas", "unique_clicks"}

DenylistedCreativeKeys ==
    {"name", "object_type", "thumbnail_url", "description", "body", "title"}

\* C14: after _filter_fields_for_json, for every record that has a metrics map,
\* hook_rate, viewthrough_rate, cpc and click_to_reg are keys of the top-level
\* metrics and of every age_gender and platform breakdown entry (0 where there
\* is nothing to compute them from), no denylisted key is left in metrics and
\* none of name, object_type, thumbnail_url, description, body, title is left
\* in creative.
C14_RequiredPresentDeniedAbsent ==
    Filtered =>
        \A i \in 1..Len(filtered_analyzed_ads.ads) :
            HasMetrics(filtered_analyzed_ads.ads, i) =>
                LET before == MetricsOf(analyzed_ads, i)
                    after == MetricsOf(filtered_analyzed_ads.ads, i)
                IN /\ RequiredKeys \subseteq DOMAIN after
                   /\ \A b \in EntriesOf(filtered_analyzed_ads.ads, i) :
                         RequiredKeys \subseteq DOMAIN b
                   /\ DOMAIN after \cap DenylistedKeys = {}
                   /\ CreativeKeys(filtered_analyzed_ads.ads, i) \cap DenylistedCreativeKeys = {}
                   /\ ("cpc" \notin DOMAIN before /\ ~PositiveAt(before, "clicks"))
                         => after["cpc"] = Whole(0)
                   /\ ("hook_rate" \notin DOMAIN before /\ ~PositiveAt(before, "impressions"))
                         => after["hook_rate"] = Whole(0)

\* C14 witness: a record that came with roas and a named creative, without cpc
\* and without clicks, with an age_gender and a platform entry, has been
\* filtered
C14_Witness ==
    /\ Filtered
    /\ Len(analyzed_ads) = 1
    /\ HasMetrics(analyzed_ads, 1)
    /\ "roas" \in DOMAIN MetricsOf(analyzed_ads, 1)
    /\ "cpc" \notin DOMAIN MetricsOf(analyzed_ads, 1)
    /\ ~PositiveAt(MetricsOf(analyzed_ads, 1), "clicks")
    /\ "name" \in CreativeKeys(analyzed_ads, 1)
    /\ "breakdowns" \in DOMAIN analyzed_ads[1]["ad_data"]
    /\ DOMAIN analyzed_ads[1]["ad_data"]["breakdowns"] = Dimensions
    /\ \E b \in EntriesOf(analyzed_ads, 1) : "hook_rate" \notin DOMAIN b
    /\ MetricsOf(filtered_analyzed_ads.ads, 1)["cpc"] = Whole(0)

\* C15: the sanitizer is idempotent: a second pass over what the first pass
\* returned returns the same list, key for key and value for value.
C15_Idempotent ==
    saving = "filtered twice" => filtered_again = filtered_analyzed_ads

\* C15 witness: the second pass has run on a record whose first pass computed
\* cpc from spend and clicks, deleted roas and formatted the breakdown entries
C15_Witness ==
    /\ saving = "filtered twice"
    /\ filtered_again.returned
    /\ Len(analyzed_ads) = 1
    /\ HasMetrics(analyzed_ads, 1)
    /\ "roas" \in DOMAIN MetricsOf(analyzed_ads, 1)
    /\ "cpc" \notin DOMAIN MetricsOf(analyzed_ads, 1)
    /\ MetricsOf(filtered_again.ads, 1)["cpc"] = Rat(501, 100)
    /\ \E b \in EntriesOf(filtered_again.ads, 1) : Positive(b["hook_rate"])

\* the keys of a map the pass may delete
Deletable(level) == IF level = "metrics" THEN DenylistedKeys ELSE {}

\* a map is changed only by deleting denylisted keys, adding required keys and
\* rounding numbers to 2 decimals
OnlyDeletedBackfilledRounded(before, after, level) ==
    /\ \A k \in DOMAIN before :
          k \in Deletable(level) \/ (k \in DOMAIN after /\ after[k] = Rounded(before[k]))
    /\ \A k \in DOMAIN after \ DOMAIN before : k \in RequiredKeys

ReadBack == JsonLoad(json_file.text)

\* the fields of a set that the metrics of ad i held before saving are in the
\* record read back, with the value rounded to 2 decimals
PreservedInJson(fields) ==
    \A i \in 1..Len(analyzed_ads) :
        \A k \in fields \cap DOMAIN MetricsOf(analyzed_ads, i) :
            /\ k \in DOMAIN MetricsOf(ReadBack, i)
            /\ MetricsOf(ReadBack, i)[k] = Rounded(MetricsOf(analyzed_ads, i)[k])

\* C16 as stated: every required field of the normalized metrics that an ad's
\* metrics hold before saving is in the record written to the JSON file and
\* read back, with the same value up to 2-decimal rounding.
C16_RequiredFieldsRoundTrip == json_file.written => PreservedInJson(RequiredFields)

\* C16, amended: every required field other than roas that the metrics of
\* get_complete_ad_data hold before saving is in the record read back from the
\* JSON file with the same value up to 2-decimal rounding; roas is on the
\* denylist of the sanitizer and is not in the file.
C16_RequiredFieldsButRoasRoundTrip ==
    json_file.written =>
        /\ PreservedInJson(RequiredFields \ {"roas"})
        /\ \A i \in 1..Len(analyzed_ads) : "roas" \notin DOMAIN MetricsOf(ReadBack, i)

\* C16 witness: the file holds an ad that came with spend 300, cpm 300000/7 and
\* a roas, and is read back with cpm 42857.14
C16_Witness ==
    /\ json_file.written
    /\ Len(analyzed_ads) >= 1
    /\ MetricsOf(analyzed_ads, 1)["spend"] = Whole(300)
    /\ MetricsOf(analyzed_ads, 1)["cpm"] = Rat(300000, 7)
    /\ Positive(MetricsOf(analyzed_ads, 1)["roas"])
    /\ MetricsOf(ReadBack, 1)["cpm"] = Rat(4285714, 100)

\* C17: in run_pipeline every record handed to a sink, the JSON file and the
\* ad-details batch update of the spreadsheet, is the record the sanitizer
\* returned for it: it went through the pass once, after analysis and before
\* the hand-over, and no unsanitized record reaches a sink.
C17_SinksGetSanitizedRecords ==
    /\ json_file.written => (Filtered /\ ReadBack = filtered_analyzed_ads.ads)
    /\ ad_details_batch.updated =>
          (Filtered /\ ad_details_batch.ads = filtered_analyzed_ads.ads)

(***************************************************************************)
(* Properties of the delay between requests.                               *)
(***************************************************************************)
\* C19: the delay between requests is at least 2 seconds in every state of a
\* client: it starts at 2, every rate-limit response doubles it before the
\* request is retried, and every successful response divides it by 1.5 without
\* taking it below 2.
C19_DelayAtLeastMinimum ==
    /\ rate_limit_wait = Whole(2)
    /\ [](RatLE(Whole(2), rate_limit_wait))
    /\ [][/\ rate_limited' # rate_limited =>
                (retries' = retries + 1
                    /\ rate_limit_wait' = RatAdd(rate_limit_wait, rate_limit_wait))
          /\ (retries >= 0 /\ last_status' = "ok" /\ retries' = -1) =>
                \/ rate_limit_wait' = RatScale(rate_limit_wait, 10, 15)
                \/ (rate_limit_wait' = Whole(2)
                       /\ RatLE(RatScale(rate_limit_wait, 10, 15), Whole(2)))]_vars

\* C19 witness: after a rate-limit response, successful responses have brought
\* the delay back to 2 seconds
C19_Witness ==
    /\ rate_limited >= 1
    /\ last_status = "ok"
    /\ rate_limit_wait = Whole(2)

RECURSIVE Pow2(_)
Pow2(k) == IF k = 0 THEN 1 ELSE 2 * Pow2(k - 1)

\* a ceiling of the delay: what one rate-limit response fewer than the model
\* admits in a row can reach from 2 seconds
WaitCeiling == Whole(2 * Pow2(MaxRateLimited - 1))

\* C20: the growth of the delay is capped: there is a fixed ceiling that
\* rate_limit_wait never exceeds, for any number of rate-limit responses in a
\* row.
C20_DelayCapped == RatLE(rate_limit_wait, WaitCeiling)

(***************************************************************************)
(* DataValidator.validate_ad_data.  ad_data is a map from field names to   *)
(* values: a string, None, a created_time, the metrics map (numbers), the  *)
(* breakdowns map (lists of rows).                                         *)
(***************************************************************************)
\* None
NoneValue == [kind |-> "none", n |-> 0, d |-> 1]

\* a created_time that holds a date and nothing else: "2024-01-05"
DateOnly(d) == [kind |-> "date", day |-> d, tod |-> 0]

\* a created_time in no format strptime accepts
OtherText == [kind |-> "text", day |-> 0, tod |-> 0]

\* not ad_data[field]: None; '' is no value of the model; an empty metrics dict
NotTruthy(field, value) ==
    IF field = "metrics" THEN DOMAIN value = {} ELSE value.kind = "none"

\* the issue texts, by what they report
Issue(what, field) == [issue |-> what, field |-> field]

TopLevelFields == <<"ad_id", "ad_name", "campaign_name", "created_time", "metrics">>

MetricFields == <<"spend", "impressions", "clicks", "conversions", "ctr", "cpm", "cpa">>

\* f"Missing required ...: {field}" for every field of the list that the test selects
MissingIssues(fields, what, Lacks(_)) ==
    LET issue(i) == Issue(what, SelectSeq(fields, Lacks)[i])
    IN [i \in 1..Len(SelectSeq(fields, Lacks)) |-> issue(i)]

\* _check_required_fields
CheckRequiredFields(ad_data) ==
    LET lacksField(f) == f \notin DOMAIN ad_data \/ NotTruthy(f, ad_data[f])
        lacksMetric(f) == f \notin DOMAIN ad_data["metrics"]
        top == MissingIssues(TopLevelFields, "Missing required field", lacksField)
        inMetrics == IF "metrics" \in DOMAIN ad_data
                     THEN MissingIssues(MetricFields, "Missing required metric", lacksMetric)
                     ELSE <<>>
        inBreakdowns ==
            IF "breakdowns" \in DOMAIN ad_data
            THEN IF \/ "age_gender" \notin DOMAIN ad_data["breakdowns"]
                    \/ ad_data["breakdowns"]["age_gender"] = <<>>
                 THEN <<Issue("Missing required breakdown", "age_gender")>>
                 ELSE <<>>
            ELSE <<Issue("Missing required section", "breakdowns")>>
    IN top \o inMetrics \o inBreakdowns

\* metrics.get(k, 0)
MetricGet(m, k) == IF k \in DOMAIN m THEN m[k] ELSE Whole(0)

\* a < b
RatLT(a, b) == a.n * b.d < b.n * a.d

\* a spend check that asks for more than the threshold
CheckSpendAboveThreshold(ad_data) ==
    /\ "metrics" \in DOMAIN ad_data
    /\ RatLT(Whole(SPEND_THRESHOLD), MetricGet(ad_data["metrics"], "spend"))

\* _check_spend_threshold: spend >= self.spend_threshold
CheckSpendThreshold(ad_data) ==
    /\ "metrics" \in DOMAIN ad_data
    /\ RatLE(Whole(SPEND_THRESHOLD), MetricGet(ad_data["metrics"], "spend"))

\* (today - created_time).days: the whole days between midnight of the day of
\* created_time and now
DaysSinceCreation(created, tod) == ((0 * NumTod + tod) - created.day * NumTod) \div NumTod

\* _check_timeframe: None and a text in another format raise inside the try
CheckTimeframe(ad_data, tod) ==
    /\ "created_time" \in DOMAIN ad_data
    /\ ad_data["created_time"].kind \in {"iso", "date"}
    /\ DaysSinceCreation(ParseCreated(ad_data["created_time"]), tod) >= DAYS_THRESHOLD

\* _check_anomalies, in the order of the code
CheckAnomalies(ad_data) ==
    IF "metrics" \notin DOMAIN ad_data THEN <<>>
    ELSE LET m == ad_data["metrics"]
             negative(f) == f \in DOMAIN m /\ m[f].n < 0
         IN (IF RatLT(Whole(10), MetricGet(m, "ctr"))
             THEN <<Issue("Unusually high CTR", "ctr")>> ELSE <<>>)
            \o (IF MetricGet(m, "impressions").n = 0 /\ MetricGet(m, "spend").n > 0
                THEN <<Issue("Zero impressions with non-zero spend", "impressions")>>
                ELSE <<>>)
            \o MissingIssues(MetricFields, "Negative value", negative)
            \o (IF /\ MetricGet(m, "clicks").n > 0
                   /\ RatLT(MetricGet(m, "clicks"), MetricGet(m, "conversions"))
                THEN <<Issue("Conversion count exceeds click count", "conversions")>>
                ELSE <<>>)
            \o (IF RatLT(Whole(20), MetricGet(m, "roas"))
                THEN <<Issue("Unusually high ROAS", "roas")>> ELSE <<>>)

\* validate_ad_data: (is_valid, issues)
ValidateAdData(ad_data, tod) ==
    LET required_fields == CheckRequiredFields(ad_data)
        spend_ok == CheckSpendThreshold(ad_data)
        timeframe_ok == CheckTimeframe(ad_data, tod)
    IN [returned |-> TRUE,
        is_valid |-> required_fields = <<>> /\ spend_ok /\ timeframe_ok,
        issues |-> required_fields
                   \o (IF spend_ok THEN <<>>
                       ELSE <<Issue("Spend below threshold", "spend")>>)
                   \o (IF timeframe_ok THEN <<>>
                       ELSE <<Issue("Insufficient data", "created_time")>>)
                   \o CheckAnomalies(ad_data)]

\* validate_ad: the flag, and the first issue as the reason of an invalid ad
ValidateAd(ad_data, tod) ==
    LET checked == ValidateAdData(ad_data, tod)
    IN IF ~checked.is_valid /\ checked.issues # <<>>
       THEN [valid |-> FALSE, reason |-> <<checked.issues[1]>>]
       ELSE [valid |-> checked.is_valid, reason |-> <<>>]

(***************************************************************************)
(* SpecValidate: validate_ad_data over bounded ad records.                 *)
(***************************************************************************)
\* a key the record does not hold
Missing == [kind |-> "missing"]

\* {key: value}, or {} when the record does not hold the key
Entry(key, value) == IF value = Missing THEN EmptyMap ELSE (key :> value)

\* metrics of an ad with the given spend
PlainMetrics(spend) ==
    [k \in Range(MetricFields) |->
        CASE k = "spend" -> Whole(spend)
          [] k = "impressions" -> Whole(1000)
          [] k = "clicks" -> Whole(20)
          [] k = "conversions" -> Whole(4)
          [] k = "ctr" -> Whole(2)
          [] k = "cpm" -> Whole(5)
          [] k = "cpa" -> Whole(10)]

\* the metrics maps validate_ad_data is given: a required metric missing, and
\* one map for each anomaly
ValidatorMetrics ==
    {EmptyMap}
    \cup UNION {{PlainMetrics(s),
                 [k \in Range(MetricFields) \ {"cpa"} |-> PlainMetrics(s)[k]],
                 Put(PlainMetrics(s), "ctr", Whole(11)),
                 Put(PlainMetrics(s), "impressions", Whole(0)),
                 Put(PlainMetrics(s), "cpm", Whole(0 - 1)),
                 Put(PlainMetrics(s), "conversions", Whole(30)),
                 Put(PlainMetrics(s), "roas", Whole(21))} :
                s \in {SPEND_THRESHOLD - 1, SPEND_THRESHOLD, SPEND_THRESHOLD + 1}}

ValidatorCreated ==
    {NoneValue, OtherText}
    \cup {IsoTime(0 - n, t) : n \in {DAYS_THRESHOLD - 1, DAYS_THRESHOLD, DAYS_THRESHOLD + 1},
                              t \in 0..(NumTod - 1)}
    \cup {DateOnly(0 - n) : n \in {DAYS_THRESHOLD - 1, DAYS_THRESHOLD}}

ValidatorBreakdowns ==
    {EmptyMap, ("age_gender" :> <<>>), ("age_gender" :> <<StrValue>>)}

ValidatorAds ==
    {("ad_id" :> StrValue) @@ Entry("ad_name", name) @@ Entry("campaign_name", campaign)
        @@ Entry("created_time", created) @@ Entry("metrics", m)
        @@ Entry("breakdowns", breakdowns) :
        name \in {StrValue, NoneValue, Missing},
        campaign \in {StrValue, NoneValue},
        created \in ValidatorCreated \cup {Missing},
        m \in ValidatorMetrics \cup {Missing},
        breakdowns \in ValidatorBreakdowns \cup {Missing}}

\* is_valid, issues = validator.validate_ad_data(ad_data)
ValidateAdDataCall ==
    /\ ~validation.returned
    /\ validation' = ValidateAdData(candidate, now_tod)
    /\ UNCHANGED <<candidate, eligVars, extVars, benchVars, sinkVars, rateVars, clientVars, runVars>>

NextValidate == ValidateAdDataCall

InitValidate ==
    /\ now_tod \in 0..(NumTod - 1)
    /\ days = DAYS_THRESHOLD
    /\ min_spend = SPEND_THRESHOLD
    /\ specific_adset_ids = NotGiven
    /\ specific_campaign_ids = NotGiven
    /\ account_ads = <<>>
    /\ account_spend = <<>>
    /\ honours = TRUE
    /\ EligIdle
    /\ ExtIdle
    /\ BenchIdle
    /\ SinkIdle
    /\ RateIdle
    /\ ClientIdle
    /\ RunIdle
    /\ candidate \in ValidatorAds
    /\ validation = NotValidated

SpecValidate == InitValidate /\ [][NextValidate]_vars

(***************************************************************************)
(* Properties of the validator.                                            *)
(***************************************************************************)
\* a required top-level field is missing when the record lacks it or holds
\* None or an empty value for it; a metric when the metrics lack its key
FieldMissing(ad, f) ==
    \/ f \notin DOMAIN ad
    \/ (f = "metrics" /\ DOMAIN ad[f] = {})
    \/ (f # "metrics" /\ ad[f].kind = "none")

NoRequiredFieldMissing(ad) ==
    /\ \A f \in {"ad_id", "ad_name", "campaign_name", "created_time", "metrics"} :
          ~FieldMissing(ad, f)
    /\ \A f \in {"spend", "impressions", "clicks", "conversions", "ctr", "cpm", "cpa"} :
          f \in DOMAIN ad["metrics"]
    /\ "breakdowns" \in DOMAIN ad
    /\ "age_gender" \in DOMAIN ad["breakdowns"]
    /\ Len(ad["breakdowns"]["age_gender"]) > 0

SpendAtLeastThreshold(ad) ==
    "metrics" \in DOMAIN ad /\ "spend" \in DOMAIN ad["metrics"]
        /\ ad["metrics"]["spend"].n >= SPEND_THRESHOLD * ad["metrics"]["spend"].d

\* the creation date lies DAYS_THRESHOLD days or more before today (day 0)
CreatedLongEnoughAgo(ad) ==
    "created_time" \in DOMAIN ad /\ ad["created_time"].kind \in {"iso", "date"}
        /\ 0 - ad["created_time"].day >= DAYS_THRESHOLD

\* the anomalies of an ad's metrics, by the metric they are about
AnomalousMetrics(ad) ==
    IF "metrics" \notin DOMAIN ad THEN {}
    ELSE LET m == ad["metrics"]
             at(k) == IF k \in DOMAIN m THEN m[k] ELSE Whole(0)
         IN {k \in {"ctr"} : at(k).n > 10 * at(k).d}
            \cup {k \in {"roas"} : at(k).n > 20 * at(k).d}
            \cup {k \in {"impressions"} : at(k).n = 0 /\ at("spend").n > 0}
            \cup {k \in {"conversions"} :
                    at("clicks").n > 0 /\ at(k).n * at("clicks").d > at("clicks").n * at(k).d}

AnomalyTexts ==
    {"Unusually high CTR", "Unusually high ROAS", "Zero impressions with non-zero spend",
     "Conversion count exceeds click count", "Negative value"}

IssuesAbout(texts) == {validation.issues[i].field : i \in
                          {j \in 1..Len(validation.issues) : validation.issues[j].issue \in texts}}

\* C27: validate_ad_data reports an ad valid exactly when no required field is
\* missing, its spend is at least the spend threshold (a spend equal to the
\* threshold passes) and DAYS_THRESHOLD whole days or more have passed since
\* its creation date; the anomalies (CTR above 10, a negative value,
\* conversions above clicks, ROAS above 20, spend without impressions) are in
\* the issue list and do not change the verdict.
C27_ValidExactlyWhenComplete ==
    validation.returned =>
        /\ validation.is_valid = (/\ NoRequiredFieldMissing(candidate)
                                  /\ SpendAtLeastThreshold(candidate)
                                  /\ CreatedLongEnoughAgo(candidate))
        /\ AnomalousMetrics(candidate) \subseteq IssuesAbout(AnomalyTexts)
        /\ ("metrics" \in DOMAIN candidate =>
               \A k \in DOMAIN candidate["metrics"] :
                   (candidate["metrics"][k].n < 0 /\ k # "roas")
                       => k \in IssuesAbout({"Negative value"}))

\* C27 witness: an ad whose spend equals the threshold, created exactly
\* DAYS_THRESHOLD days ago, with an anomaly in its metrics, is reported valid
\* and the anomaly is in the issue list
C27_Witness ==
    /\ validation.returned
    /\ validation.is_valid
    /\ candidate["metrics"]["spend"] = Whole(SPEND_THRESHOLD)
    /\ candidate["created_time"].day = 0 - DAYS_THRESHOLD
    /\ validation.issues # <<>>

(***************************************************************************)
(* MetaApiClient: the external HTTP calls of test_connection,              *)
(* _make_api_request and _handle_pagination, and the time between them.    *)
(* Times are exact rationals in seconds; a time of LongAgo or more is kept *)
(* as LongAgo, which is longer than any delay the client reaches.          *)
(***************************************************************************)
\* times are added and compared over their least common denominator
LCM(a, b) == (a \div GCD(a, b)) * b

OverDenominator(x, l) == x.n * (l \div x.d)

TimeAdd(a, b) ==
    LET l == LCM(a.d, b.d) IN Rat(OverDenominator(a, l) + OverDenominator(b, l), l)

TimeSub(a, b) ==
    LET l == LCM(a.d, b.d) IN Rat(OverDenominator(a, l) - OverDenominator(b, l), l)

TimeLE(a, b) ==
    LET l == LCM(a.d, b.d) IN OverDenominator(a, l) <= OverDenominator(b, l)

TimeLT(a, b) == ~TimeLE(b, a)

\* self.last_request_time = 0: the epoch
LongAgo == Whole(2 * Pow2(MaxRateLimited) + 1)

\* t seconds, then g seconds more
Later(t, g) == IF TimeLE(LongAgo, TimeAdd(t, g)) THEN LongAgo ELSE TimeAdd(t, g)

\* the time the caller lets pass before it calls the client: none to speak of,
\* or longer than any delay
NoTime == Whole(0)

IdleTimes == {NoTime, LongAgo}

\* sleep_time = self.rate_limit_wait - time_since_last, when time_since_last
\* is below self.rate_limit_wait
SleepTime(time_since_last, wait) ==
    IF TimeLT(time_since_last, wait) THEN TimeSub(wait, time_since_last) ELSE Whole(0)

\* a retry that keeps the delay as it is
SameWait(wait) == wait

\* self.rate_limit_wait *= 2
DoubledWait(wait) == RatScale(wait, 2, 1)

\* requests.get: the call, the time since the previous one, and the delay
\* the client holds when it is made
ExternalCall(by, gap, wait) ==
    [made |-> TRUE, by |-> by, first |-> ~call_log.made, gap |-> gap, wait |-> wait]

\* the pages a paginated request is served in: page j holds the item j, or
\* nothing; every page but the last has a 'next' link
PageChains == UNION {[1..k -> {0, 1}] : k \in 1..MaxPages}

\* response.get('data', []) of page j of the chain
PageData(chain, j) == IF chain[j] = 1 THEN <<j>> ELSE <<>>

\* paging.get('next') of page j
HasNext(chain, j) == j < Len(chain)

\* lines 159-173 of _make_api_request, g seconds after the caller got control:
\* the sleep, self.last_request_time = time.time(), requests.get
SendRequest(g, by) ==
    LET sleep_time == SleepTime(Later(elapsed, g), rate_limit_wait)
    IN /\ call_log' = ExternalCall(by, Later(Later(since_call, g), sleep_time),
                                   rate_limit_wait)
       /\ elapsed' = Whole(0)
       /\ since_call' = Whole(0)

\* a caller calls _make_api_request for one response
SingleRequest ==
    /\ in_call = "none"
    /\ \E g \in IdleTimes, kind \in {"plain", "video or creative"} :
          /\ url_kind' = kind
          /\ SendRequest(g, "request")
    /\ in_call' = "single"
    /\ retries' = 0
    /\ call_outcome' = "none"
    /\ UNCHANGED <<rate_limit_wait, rate_limited, last_status, served, page_count,
                   all_data, paged>>
    /\ UNCHANGED <<eligVars, extVars, benchVars, sinkVars, validVars, runVars>>

\* a caller calls _handle_pagination: the first request, line 234
FirstPageRequest ==
    /\ in_call = "none"
    /\ \E g \in IdleTimes : SendRequest(g, "request")
    /\ served' \in PageChains
    /\ url_kind' = "plain"
    /\ in_call' = "first page"
    /\ retries' = 0
    /\ page_count' = 1
    /\ all_data' = <<>>
    /\ paged' = NotPaged
    /\ call_outcome' = "none"
    /\ UNCHANGED <<rate_limit_wait, rate_limited, last_status>>
    /\ UNCHANGED <<eligVars, extVars, benchVars, sinkVars, validVars, runVars>>

\* status 429 or 'User request limit reached': the delay is doubled, slept,
\* and the request made again by the nested call
RetryAfterRateLimit ==
    /\ in_call \in {"single", "first page"}
    /\ rate_limited < MaxRateLimited
    /\ rate_limit_wait' = DoubledWait(rate_limit_wait)
    /\ LET slept == Later(elapsed, rate_limit_wait')
           sleep_time == SleepTime(slept, rate_limit_wait')
       IN /\ call_log' = ExternalCall("retry",
                             Later(Later(since_call, rate_limit_wait'), sleep_time),
                             rate_limit_wait')
          /\ elapsed' = Whole(0)
          /\ since_call' = Whole(0)
    /\ retries' = retries + 1
    /\ rate_limited' = rate_limited + 1
    /\ last_status' = "limited"
    /\ UNCHANGED <<in_call, url_kind, call_outcome, served, page_count, all_data, paged>>
    /\ UNCHANGED <<eligVars, extVars, benchVars, sinkVars, validVars, runVars>>

\* status 200 for a single request: the delay is relaxed, the body returned
Returns200 ==
    /\ in_call = "single"
    /\ rate_limit_wait' = Relaxed(rate_limit_wait)
    /\ retries' = 0 - 1
    /\ last_status' = "ok"
    /\ in_call' = "none"
    /\ call_outcome' = "returned"
    /\ UNCHANGED <<rate_limited, url_kind, elapsed, since_call, call_log, served,
                   page_count, all_data, paged>>
    /\ UNCHANGED <<eligVars, extVars, benchVars, sinkVars, validVars, runVars>>

\* a status that is neither 200 nor a rate limit: the stub for a permission
\* error on a video or creative url, an exception for everything else
ErrorResponse ==
    /\ in_call \in {"single", "first page"}
    /\ \E permission_text \in BOOLEAN :
          call_outcome' = IF permission_text /\ url_kind = "video or creative"
                          THEN "stub" ELSE "raised"
    /\ retries' = 0 - 1
    /\ last_status' = "failed"
    /\ in_call' = "none"
    /\ UNCHANGED <<rate_limit_wait, rate_limited, url_kind, elapsed, since_call,
                   call_log, served, page_count, all_data, paged>>
    /\ UNCHANGED <<eligVars, extVars, benchVars, sinkVars, validVars, runVars>>

\* the caller gets all_data, or the loop goes on
PageTaken(data, more) ==
    /\ all_data' = data
    /\ IF more
       THEN /\ in_call' = "next page"
            /\ UNCHANGED <<paged, call_outcome>>
       ELSE /\ in_call' = "none"
            /\ paged' = [returned |-> TRUE, data |-> data]
            /\ call_outcome' = "returned"

\* status 200 for the first request of _handle_pagination, lines 234-245
FirstPageReturns ==
    /\ in_call = "first page"
    /\ rate_limit_wait' = Relaxed(rate_limit_wait)
    /\ retries' = 0 - 1
    /\ last_status' = "ok"
    /\ PageTaken(all_data \o PageData(served, 1), HasNext(served, 1))
    /\ UNCHANGED <<rate_limited, url_kind, elapsed, since_call, call_log, served,
                   page_count>>
    /\ UNCHANGED <<eligVars, extVars, benchVars, sinkVars, validVars, runVars>>

\* one pass of "while next_page", lines 245-268: the sleep, requests.get of the
\* next link, and either the page or the break
FetchNextPage ==
    /\ in_call = "next page"
    /\ page_count' = page_count + 1
    /\ call_log' = ExternalCall("page", Later(since_call, rate_limit_wait),
                                rate_limit_wait)
    /\ since_call' = Whole(0)
    /\ elapsed' = Later(elapsed, rate_limit_wait)
    /\ \E status \in {200, 429, 500} :
          IF status # 200
          THEN PageTaken(all_data, FALSE)
          ELSE PageTaken(all_data \o PageData(served, page_count'),
                         HasNext(served, page_count'))
    /\ UNCHANGED <<url_kind, served>>
    /\ UNCHANGED <<rateVars, eligVars, extVars, benchVars, sinkVars, validVars, runVars>>

\* test_connection: requests.get of /me with no sleep before it
TestConnection ==
    /\ in_call = "none"
    /\ \E g \in IdleTimes :
          /\ call_log' = ExternalCall("test_connection", Later(since_call, g),
                                      rate_limit_wait)
          /\ elapsed' = Later(elapsed, g)
    /\ since_call' = Whole(0)
    /\ \E status \in {200, 500} :
          call_outcome' = IF status = 200 THEN "returned" ELSE "raised"
    /\ UNCHANGED <<in_call, url_kind, served, page_count, all_data, paged>>
    /\ UNCHANGED <<rateVars, eligVars, extVars, benchVars, sinkVars, validVars, runVars>>

\* the responses that end a call of _make_api_request
AnswerThatEnds == Returns200 \/ FirstPageReturns \/ ErrorResponse

NextClient ==
    \/ TestConnection
    \/ SingleRequest
    \/ FirstPageRequest
    \/ RetryAfterRateLimit
    \/ Returns200
    \/ FirstPageReturns
    \/ ErrorResponse
    \/ FetchNextPage

\* MetaApiClient.__init__: rate_limit_wait = 2, last_request_time = 0
InitClient ==
    /\ EligUnused
    /\ ExtIdle
    /\ BenchIdle
    /\ SinkIdle
    /\ ValidIdle
    /\ RunIdle
    /\ rate_limit_wait = Whole(2)
    /\ retries = 0 - 1
    /\ rate_limited = 0
    /\ last_status = "none"
    /\ in_call = "none"
    /\ url_kind = "plain"
    /\ elapsed = LongAgo
    /\ since_call = LongAgo
    /\ call_log = NoCall
    /\ call_outcome = "none"
    /\ served = <<>>
    /\ page_count = 0
    /\ all_data = <<>>
    /\ paged = NotPaged

SpecClient == InitClient /\ [][NextClient]_vars

\* the API answers the request in flight, in the end, with a response that is
\* no rate-limit response
SpecClientAnswered == SpecClient /\ WF_vars(AnswerThatEnds)

(***************************************************************************)
(* Properties of the client's external calls.                              *)
(***************************************************************************)
\* C21: before every external HTTP call of the client (the connection test,
\* every request of _make_api_request, every page fetched by
\* _handle_pagination) at least the delay the client holds at that moment has
\* passed since its previous external call.
C21_DelayBeforeEveryCall ==
    (call_log.made /\ ~call_log.first) => TimeLE(call_log.wait, call_log.gap)

\* the items of every page of the chain, in page order
RECURSIVE ItemsUpTo(_, _)
ItemsUpTo(chain, j) ==
    IF j = 0 THEN <<>> ELSE ItemsUpTo(chain, j - 1) \o (IF chain[j] = 1 THEN <<j>> ELSE <<>>)

\* C22: whenever _handle_pagination returns, the list it returns holds the
\* items of every page reachable through the 'next' links, in page order; a
\* later page whose request fails or is rate-limited does not make it return a
\* shorter list.
C22_ReturnsEveryPage ==
    paged.returned => paged.data = ItemsUpTo(served, Len(served))

\* a step in which the request in flight is answered with a rate-limit response
RetryStep == retries >= 0 /\ rate_limited' = rate_limited + 1

\* a step in which it is answered with an error status that is no rate limit
ErrorStep == retries >= 0 /\ retries' = 0 - 1 /\ last_status' = "failed"

\* every call returns or raises; the request is made again only after the
\* doubled delay has passed since it was last made
ReturnsOrRaisesAfterDoubledWaits ==
    /\ (retries >= 0) ~> (retries = 0 - 1)
    /\ [][RetryStep =>
            /\ rate_limit_wait' = RatScale(rate_limit_wait, 2, 1)
            /\ call_log'.by = "retry"
            /\ TimeLE(rate_limit_wait', call_log'.gap)]_vars

Regions == {"ASI", "EUR", "LAT", "PAC", "GBR", "NAM"}

\* self.ad_account_id after lines 69-77: the configured id of the region, the
\* id written into the code for GBR, or ''
AdAccountId(cfg) ==
    IF cfg.configured THEN "configured"
    ELSE IF cfg.region = "GBR" THEN "1042125899190941" ELSE ""

\* if not self.ad_account_id or not self.access_token: raise ValueError
ConstructorRaises(cfg) == AdAccountId(cfg) = "" \/ ~cfg.token

\* _complete_run: ad_count becomes success_count + error_count when it is 0
CompleteRun(stats) ==
    IF stats.ad_count = 0
    THEN [stats EXCEPT !.ad_count = stats.success_count + stats.error_count]
    ELSE stats

\* a failure of one ad that leaves the statistics as they are
AdFailureUncounted(stats) == stats

\* run_stats["error_count"] += 1
AfterAdFailure(stats) == [stats EXCEPT !.error_count = @ + 1]

\* run_stats["success_count"] += 1
AfterAdSuccess(stats) == [stats EXCEPT !.success_count = @ + 1]

\* a run that fails when the spreadsheet cannot be updated
RunStatusFailedWithSink(failed) ==
    IF "ad details" \in failed THEN "failed" ELSE "success"

\* run_stats["run_status"] = "success": line 576 is reached whatever the
\* sinks did, their exceptions being caught at 543, 561 and 571
RunStatusAfterSaving(failed) == "success"

\* what get_complete_ad_data raised instead of returning
FetchRaises == [kind |-> "raises"]

\* ad_data of an ad created DAYS_THRESHOLD days ago
FetchedAd(parts, spend) ==
    ("ad_id" :> StrValue) @@ ("ad_name" :> [kind |-> "str", parts |-> parts])
        @@ ("campaign_name" :> StrValue)
        @@ ("created_time" :> IsoTime(0 - DAYS_THRESHOLD, 0))
        @@ ("metrics" :> PlainMetrics(spend))
        @@ ("breakdowns" :> ("age_gender" :> <<StrValue>>))

\* get_complete_ad_data returns a record with all its keys, or raises
FetchOutcomes ==
    {FetchRaises}
    \cup {FetchedAd(parts, spend) : parts \in {1, 3},
                                    spend \in {SPEND_THRESHOLD - 1, SPEND_THRESHOLD}}

\* ad_name.split('_')[-2] raises IndexError for a name without '_'
ShortNameRaises(ad_data) == ad_data["ad_name"].parts < 2

Sinks == {"json", "ad details", "dashboard"}

\* the dashboard is not updated once the update of the ad details has raised
SinkFailures == {failed \in SUBSET Sinks : ~({"ad details", "dashboard"} \subseteq failed)}

\* return self._complete_run(run_stats, start_time)
Return(stats) ==
    /\ run_stats' = CompleteRun(stats)
    /\ run_at' = "returned"

\* self.meta_client = MetaApiClient(region=region), outside the try block
ConstructClient ==
    /\ run_at = "new"
    /\ run_at' = IF ConstructorRaises(config) THEN "aborted" ELSE "constructed"
    /\ UNCHANGED <<config, run_stats, processed_count, valid_ads, analysis_no, failures,
                   counted, sinks_failed, stats_before_saving, fatal>>
    /\ UNCHANGED <<eligVars, extVars, benchVars, sinkVars, rateVars, validVars, clientVars>>

\* step 1: test_connection returns True or raises; the except clause of line
\* 595 ends the run as failed
ConnectionTested ==
    /\ run_at = "constructed"
    /\ \E connected \in BOOLEAN :
          IF connected
          THEN /\ run_at' = "finding"
               /\ pc' = "start"
               /\ UNCHANGED <<run_stats, fatal>>
          ELSE /\ Return([run_stats EXCEPT !.run_status = "failed"])
               /\ fatal' = "connection"
               /\ UNCHANGED pc
    /\ UNCHANGED <<config, processed_count, valid_ads, analysis_no, failures, counted,
                   sinks_failed, stats_before_saving>>
    /\ UNCHANGED <<now_tod, days, min_spend, specific_adset_ids, specific_campaign_ids,
                   account_ads, account_spend, honours, all_ads, eligible_by_date,
                   batch_no, eligible_ads, result, raised, insights_calls,
                   ads_within_threshold>>
    /\ UNCHANGED <<extVars, benchVars, sinkVars, rateVars, validVars, clientVars>>

\* step 2, lines 361-378: find_eligible_ads has returned
EligibleAdsFound ==
    /\ run_at = "finding"
    /\ pc = "done"
    /\ IF result = <<>>
       THEN Return([run_stats EXCEPT !.run_status = "success", !.ad_count = 0,
                                     !.success_count = 0, !.error_count = 0])
       ELSE /\ run_at' = "processing"
            /\ UNCHANGED run_stats
    /\ UNCHANGED <<config, processed_count, valid_ads, analysis_no, failures, counted,
                   sinks_failed, stats_before_saving, fatal>>
    /\ UNCHANGED <<eligVars, extVars, benchVars, sinkVars, rateVars, validVars, clientVars>>

\* one of the three ways an ad fails in the loops: counted, and nothing else
AdFails(ad_id) ==
    /\ run_stats' = AfterAdFailure(run_stats)
    /\ failures' = failures + 1
    /\ counted' = [counted EXCEPT !.error = @ \cup {ad_id}]

\* one pass of "for ad in eligible_ads", lines 400-454
ProcessAd ==
    /\ run_at = "processing"
    /\ processed_count < Len(result)
    /\ processed_count' = processed_count + 1
    /\ LET ad_id == result[processed_count + 1].ad_id
       IN \E ad_data \in FetchOutcomes :
            IF \/ ad_data = FetchRaises
               \/ DOMAIN ad_data = {}
               \/ ~ValidateAd(ad_data, now_tod).valid
            THEN /\ AdFails(ad_id)
                 /\ UNCHANGED valid_ads
            ELSE /\ valid_ads' = Append(valid_ads, [ad_id |-> ad_id, ad_data |-> ad_data])
                 /\ run_stats' = AfterAdSuccess(run_stats)
                 /\ counted' = [counted EXCEPT !.success = @ \cup {ad_id}]
                 /\ UNCHANGED failures
    /\ run_at' = IF processed_count' = Len(result) THEN "processed" ELSE "processing"
    /\ UNCHANGED <<config, analysis_no, sinks_failed, stats_before_saving, fatal>>
    /\ UNCHANGED <<eligVars, extVars, benchVars, sinkVars, rateVars, validVars, clientVars>>

\* lines 456-460: no valid ad ends the run; error_count is set to 0
ValidAdsChecked ==
    /\ run_at = "processed"
    /\ IF valid_ads = <<>>
       THEN Return([run_stats EXCEPT !.run_status = "success", !.error_count = 0])
       ELSE /\ run_at' = "analysing"
            /\ UNCHANGED run_stats
    /\ UNCHANGED <<config, processed_count, valid_ads, analysis_no, failures, counted,
                   sinks_failed, stats_before_saving, fatal>>
    /\ UNCHANGED <<eligVars, extVars, benchVars, sinkVars, rateVars, validVars, clientVars>>

\* one pass of "for ad_data in valid_ads", lines 483-527
AnalyzeAd ==
    /\ run_at = "analysing"
    /\ analysis_no < Len(valid_ads)
    /\ analysis_no' = analysis_no + 1
    /\ LET ad == valid_ads[analysis_no + 1]
       IN \E analyzer_raises \in BOOLEAN :
            IF ShortNameRaises(ad.ad_data) \/ analyzer_raises
            THEN /\ AdFails(ad.ad_id)
                 /\ UNCHANGED analyzed_ads
            ELSE /\ analyzed_ads' = Append(analyzed_ads, ad)
                 /\ UNCHANGED <<run_stats, failures, counted>>
    /\ run_at' = IF analysis_no' = Len(valid_ads) THEN "analysed" ELSE "analysing"
    /\ UNCHANGED <<config, processed_count, valid_ads, sinks_failed, stats_before_saving,
                   fatal>>
    /\ UNCHANGED <<saving, filtered_analyzed_ads, filtered_again, json_file,
                   ad_details_batch>>
    /\ UNCHANGED <<eligVars, extVars, benchVars, rateVars, validVars, clientVars>>

\* step 5, lines 529-577: the JSON file, the ad details, the dashboard
SaveResults ==
    /\ run_at = "analysed"
    /\ stats_before_saving' = run_stats
    /\ \E failed \in SinkFailures :
          /\ sinks_failed' = failed
          /\ Return([run_stats EXCEPT !.run_status = RunStatusAfterSaving(failed),
                                      !.warning = "ad details" \in failed])
    /\ UNCHANGED <<config, processed_count, valid_ads, analysis_no, failures, counted, fatal>>
    /\ UNCHANGED <<eligVars, extVars, benchVars, sinkVars, rateVars, validVars, clientVars>>

NextRun ==
    \/ ConstructClient
    \/ ConnectionTested
    \/ NextElig
    \/ EligibleAdsFound
    \/ ProcessAd
    \/ ValidAdsChecked
    \/ AnalyzeAd
    \/ SaveResults

\* run_pipeline(region) is called; find_eligible_ads has not been
InitRun ==
    /\ now_tod = 0
    /\ days = DAYS_THRESHOLD
    /\ min_spend = SPEND_THRESHOLD
    /\ specific_adset_ids = NotGiven
    /\ specific_campaign_ids = NotGiven
    /\ account_ads \in PlainInventories(days, BatchSize + 1)
    /\ honours = TRUE
    /\ account_spend \in [1..Len(account_ads) -> {SPEND_THRESHOLD, SPEND_THRESHOLD + 1}]
    /\ pc = "not called"
    /\ all_ads = <<>>
    /\ eligible_by_date = <<>>
    /\ batch_no = 1
    /\ eligible_ads = <<>>
    /\ result = <<>>
    /\ raised = FALSE
    /\ insights_calls = 0
    /\ ads_within_threshold = 0
    /\ ExtIdle
    /\ BenchIdle
    /\ SinkIdle
    /\ RateIdle
    /\ ValidIdle
    /\ ClientIdle
    /\ run_at = "new"
    /\ config \in [region : Regions, configured : BOOLEAN, token : BOOLEAN]
    /\ run_stats = NewRunStats
    /\ processed_count = 0
    /\ valid_ads = <<>>
    /\ analysis_no = 0
    /\ failures = 0
    /\ counted = [success |-> {}, error |-> {}]
    /\ sinks_failed = {}
    /\ stats_before_saving = NewRunStats
    /\ fatal = "none"

SpecRun == InitRun /\ [][NextRun]_vars

(***************************************************************************)
(* Properties of run_pipeline.                                             *)
(***************************************************************************)
\* a step of one of the two loops in which the ad it takes fails
AdFailureStep ==
    /\ run_at \in {"processing", "analysing"}
    /\ \/ (processed_count' = processed_count + 1 /\ valid_ads' = valid_ads)
       \/ (analysis_no' = analysis_no + 1 /\ analyzed_ads' = analyzed_ads)

\* C23: a failure confined to one ad (validation failure, an exception while
\* it is fetched, validated or analysed) does not end the run as failed: it
\* adds one to error_count, the ad is in neither valid_ads nor the output,
\* and the loop goes on with the next ad.
C23_AdFailureCountedRunContinues ==
    /\ [](run_stats.run_status = "failed" => (fatal = "connection" /\ failures = 0))
    /\ [][AdFailureStep =>
            /\ run_stats'.error_count = run_stats.error_count + 1
            /\ run_stats'.success_count = run_stats.success_count
            /\ run_stats'.run_status = "in_progress"
            /\ valid_ads' = valid_ads
            /\ analyzed_ads' = analyzed_ads
            /\ run_at' \in {"processing", "processed", "analysing", "analysed"}]_vars

\* C23 witness: the first ad failed, a later ad was analysed and is the output
C23_Witness ==
    /\ run_at = "returned"
    /\ run_stats.run_status = "success"
    /\ 1 \in counted.error
    /\ Len(analyzed_ads) = 1
    /\ analyzed_ads[1].ad_id # 1

\* C24: on every return path the error_count of the returned statistics is
\* the number of per-ad failures of the run, the run in which no ad passes
\* validation included.
C24_ErrorCountIsFailures ==
    run_at = "returned" => run_stats.error_count = failures

\* C25: constructing the client without an account id for its region, or
\* without an access token, raises for every region code before any request
\* is made, and the error aborts run_pipeline.
C25_MissingCredentialsAbort ==
    (run_at # "new" /\ (~config.configured \/ ~config.token))
        => (run_at = "aborted" /\ pc = "not called")

\* C26: a failure of a sink (the JSON write, the update of the ad details,
\* the update of the dashboard) is not fatal: run_pipeline returns with
\* run_status 'success' and with the success_count and error_count it had
\* when the analysis ended.
C26_SinkFailureNotFatal ==
    (run_at = "returned" /\ sinks_failed # {}) =>
        /\ run_stats.run_status = "success"
        /\ run_stats.success_count = stats_before_saving.success_count
        /\ run_stats.error_count = stats_before_saving.error_count

\* C26 witness: the update of the ad details failed in a run with an
\* analysed ad
C26_Witness ==
    /\ run_at = "returned"
    /\ "ad details" \in sinks_failed
    /\ "json" \in sinks_failed
    /\ analyzed_ads # <<>>

\* C28: in the returned statistics every eligible ad is counted once:
\* success_count + error_count and ad_count are the number of eligible ads
\* processed, and no ad is counted as a success and as an error.
C28_EveryAdCountedOnce ==
    (run_at = "returned" /\ processed_count > 0) =>
        /\ run_stats.success_count + run_stats.error_count = processed_count
        /\ run_stats.ad_count = processed_count
        /\ counted.success \cap counted.error = {}

\* the statistics of a run in which no ad is eligible
NoneEligible ==
    [ad_count |-> 0, success_count |-> 0, error_count |-> 0,
     run_status |-> "success", warning |-> FALSE]

\* C30: when the listing of the ads or a spend query raises inside
\* find_eligible_ads, find_eligible_ads returns the empty list, the ads
\* accepted from earlier batches being dropped, and run_pipeline ends with
\* run_status 'success' and no ad processed, as it does when no ad is
\* eligible.
C30_FindFailureEndsAsNoneEligible ==
    /\ (pc = "done" /\ raised) => result = <<>>
    /\ (raised /\ run_at \notin {"finding"}) =>
          (run_at = "returned" /\ run_stats = NoneEligible /\ processed_count = 0)

\* C30 witness: a spend query raised after ads of an earlier batch had been
\* accepted, and the run has returned
C30_Witness ==
    /\ run_at = "returned"
    /\ raised
    /\ eligible_ads # <<>>
    /\ insights_calls = 2

====
